---- MODULE Spec2Model ----
(***************************************************************************)
(* Playback engine of the visual metronome: class MetronomeServer.         *)
(* The model follows the server source that is embedded in src/README.md   *)
(* (lines 519-1736).  Times are integer milliseconds; durations, which the *)
(* code computes in floating point, are kept as exact fractions num/den.   *)
(* JavaScript null is the empty sequence NULL and a present value v is     *)
(* <<v>>, except for numbers that the code only ever tests for truthiness  *)
(* (redirect, loopStart, loopEnd, loopCurrentBarNumber), where 0 is null.  *)
(***************************************************************************)
EXTENDS Integers, Sequences, FiniteSets, TLC

VARIABLES
  srv,     \* the fields of the MetronomeServer object (this.*), plus what it
           \* handed to its collaborators (midiOutput, io, oscClient, onSongEnd)
           \* during the last operation, whether that operation ended by an
           \* exception (threw), and the numbers of interval timers created
           \* and not cleared (tickTimers, pulseTimers)
  now,     \* Date.now()
  played,  \* history: absolute numbers of the bars entered, oldest first
  issued,  \* number of commands the clients have sent so far
  triggered \* history: number of OSC messages sent for the current bar since
           \* playback entered it

vars == <<srv, now, played, issued, triggered>>

NULL == <<>>
Some(v) == <<v>>

Max(a, b) == IF a >= b THEN a ELSE b
Min(a, b) == IF a <= b THEN a ELSE b
SetMax(S) == CHOOSE m \in S : \A x \in S : x <= m

(*************************** bounds of the model ***************************)
\* value of Date.now() when the server object is constructed
Epoch == 100000
\* playback is followed for this many milliseconds after construction
MaxTime == 12000
\* the same for playback with commands
MaxCmdTime == 1000
\* the same for playback with OSC addresses
MaxOscTime == 2000
\* the same for playback with direct seeks
MaxSeekTime == 1000
\* most direct seeks in one behaviour
MaxSeeks == 2
\* the same for playback with requested jumps
MaxJumpTime == 1500
\* most commands in one behaviour of the playback with requested jumps
MaxJumps == 3
MaxLoopTime == 3000
MaxLoops == 2
MaxTempoTime == 4000
MaxTransition == 4
MaxTempoBars == 5
MaxFermataTime == 5000
MaxFermata == 4
MaxSyncTime == 1500
MaxSyncs == 3
MaxStartTime == 1500
MaxRepeatTime == 3000
MaxOrderTime == 2500
MaxOrders == 2
MaxVoltaTime == 3000
MaxIdleTime == 1000
MaxIdles == 3
MaxUpdateTime == 3000
MaxUpdates == 2
MaxPulseTime == 3000
MaxSnapTime == 1500
MaxSnaps == 3
\* most commands the clients send in one behaviour
MaxCommands == 4
\* largest redirectCount of the redirect scores
MaxK == 3
\* largest countoff of the scores
MaxCountoff == 2
\* most bars in one section of the plain scores
MaxSectionBars == 2

\* delays between two runs of the tick callback (the 60 Hz timer is best
\* effort: a callback may come late)
TickSteps == {250, 500}

(******************************* MIDI bytes ********************************)
MidiStart == 250
MidiStop == 252
MidiContinue == 251

(********************************* scores **********************************)
\* A bar as the editor stores it.  redirect = 0 and redirectCount = 0 stand
\* for an absent field, volta = {} for null, oscAddress = "" for none.
PlainBar ==
  [redirect |-> 0, redirectCount |-> 0, isFermata |-> FALSE,
   fermataDuration |-> 0, fermataDurationType |-> "beats",
   startRepeat |-> FALSE, endRepeat |-> FALSE, volta |-> {},
   segno |-> FALSE, coda |-> FALSE, dalSegno |-> FALSE, daCapo |-> FALSE,
   toCoda |-> FALSE, fine |-> FALSE, oscAddress |-> ""]

Section(tempo, beats, transitionBars, bars) ==
  [tempo |-> tempo, timeSignature |-> [beats |-> beats],
   tempoTransitionBars |-> transitionBars, bars |-> bars]

NoLoop == [enabled |-> FALSE, start |-> 0, end |-> 0]

Score(name, countoff, sections) ==
  [name |-> name, countoff |-> countoff, tempoPercentage |-> 100,
   sections |-> sections, loop |-> NoLoop]

PlainBars(n) == [i \in 1..n |-> PlainBar]

\* bars 1..3; bar 2 redirects to bar 1 k times, bar 3 redirects to bar 1 once
RedirectScore(k) ==
  Score("redirect", 0,
    <<Section(120, 1, 0,
       <<PlainBar,
         [PlainBar EXCEPT !.redirect = 1, !.redirectCount = k],
         [PlainBar EXCEPT !.redirect = 1]>>)>>)

\* README "Repeat with First and Second Endings":
\* start repeat; common; ending 1; ending 2; end repeat; next
VoltaScore ==
  Score("volta", 0,
    <<Section(120, 1, 0,
       <<[PlainBar EXCEPT !.startRepeat = TRUE],
         PlainBar,
         [PlainBar EXCEPT !.volta = {1}],
         [PlainBar EXCEPT !.volta = {2}],
         [PlainBar EXCEPT !.endRepeat = TRUE],
         PlainBar>>)>>)

\* README "D.S. al Coda": segno on 3, to coda on 6, D.S. on 9, coda on 10
DSCodaScore ==
  Score("dsCoda", 0,
    <<Section(120, 1, 0,
       [i \in 1..12 |->
          [PlainBar EXCEPT !.segno = (i = 3), !.toCoda = (i = 6),
                           !.dalSegno = (i = 9), !.coda = (i = 10)]])>>)

\* README "D.C. al Fine": fine on 5, D.C. on 9
DCFineScore ==
  Score("dcFine", 0,
    <<Section(120, 1, 0,
       [i \in 1..9 |->
          [PlainBar EXCEPT !.fine = (i = 5), !.daCapo = (i = 9)]])>>)

\* a fine bar that is never preceded by a D.S./D.C. jump
FineOnlyScore ==
  Score("fineOnly", 0,
    <<Section(120, 1, 0,
       <<PlainBar, [PlainBar EXCEPT !.fine = TRUE], PlainBar>>)>>)

\* scores without navigation markers: every layout of one to three sections
\* of 0..MaxSectionBars bars each with at least one bar in all, two beats in
\* a bar of the first section and one beat elsewhere
Layouts ==
  { l \in UNION { [1..n -> 0..MaxSectionBars] : n \in 1..3 } :
      \E i \in DOMAIN l : l[i] > 0 }

PlainScore(l, c) ==
  Score("plain", c,
    [i \in DOMAIN l |->
       Section(IF i = 2 THEN 240 ELSE 120, IF i = 1 THEN 2 ELSE 1, 0,
               PlainBars(l[i]))])

PlainScores ==
  { PlainScore(l, 0) : l \in Layouts }
    \cup { PlainScore(<<2, 1>>, c) : c \in 1..MaxCountoff }

\* D.S. al Coda with a fine bar after the coda:
\* segno and to coda on 1, D.S. on 2, coda on 3, fine on 4
CodaFineScore ==
  Score("codaFine", 0,
    <<Section(120, 1, 0,
       <<[PlainBar EXCEPT !.segno = TRUE, !.toCoda = TRUE],
         [PlainBar EXCEPT !.dalSegno = TRUE],
         [PlainBar EXCEPT !.coda = TRUE],
         [PlainBar EXCEPT !.fine = TRUE],
         PlainBar>>)>>)

\* a score for playback with commands: a countoff of one bar, a repeat over
\* bars 1..2 of two beats, then a faster section of one-beat bars with a
\* redirect and fine on bar 3 and D.C. on bar 4
MixedScore ==
  Score("mixed", 1,
    <<Section(240, 2, 0,
        <<[PlainBar EXCEPT !.startRepeat = TRUE],
          [PlainBar EXCEPT !.endRepeat = TRUE]>>),
      Section(240, 1, 0,
        <<[PlainBar EXCEPT !.redirect = 2, !.fine = TRUE],
          [PlainBar EXCEPT !.daCapo = TRUE]>>)>>)

CommandScores == {MixedScore}

ScenarioScores ==
  { RedirectScore(k) : k \in 1..MaxK }
    \cup {VoltaScore, DSCodaScore, DCFineScore, FineOnlyScore, CodaFineScore}

(******************************** Bar Index ********************************)
RECURSIVE BarsBefore(_, _)
\* number of bars of the first n sections
BarsBefore(sections, n) ==
  IF n = 0 THEN 0
  ELSE BarsBefore(sections, n - 1) + Len(sections[n].bars)

\* the entry pushed for bar barIndex (0-based) of section sectionIndex (0-based)
FlatBar(sections, sectionIndex, barIndex) ==
  LET section == sections[sectionIndex + 1]
      bar == section.bars[barIndex + 1]
  IN [absoluteNumber |-> BarsBefore(sections, sectionIndex) + barIndex + 1,
      sectionIndex |-> sectionIndex,
      barInSection |-> barIndex,
      tempo |-> section.tempo,
      tempoTransitionBars |-> section.tempoTransitionBars,
      timeSignature |-> section.timeSignature,
      redirect |-> bar.redirect,
      redirectCount |-> IF bar.redirectCount = 0 THEN 1 ELSE bar.redirectCount,
      isFermata |-> bar.isFermata,
      fermataDuration |->
        IF bar.fermataDuration = 0 THEN 4 ELSE bar.fermataDuration,
      fermataDurationType |-> bar.fermataDurationType,
      startRepeat |-> bar.startRepeat,
      endRepeat |-> bar.endRepeat,
      volta |-> bar.volta,
      segno |-> bar.segno,
      coda |-> bar.coda,
      dalSegno |-> bar.dalSegno,
      daCapo |-> bar.daCapo,
      toCoda |-> bar.toCoda,
      fine |-> bar.fine,
      oscAddress |-> bar.oscAddress,
      isCountoff |-> FALSE]

RECURSIVE FlattenFrom(_, _)
FlattenFrom(sections, sectionIndex) ==
  IF sectionIndex >= Len(sections) THEN <<>>
  ELSE [barIndex \in 1..Len(sections[sectionIndex + 1].bars) |->
          FlatBar(sections, sectionIndex, barIndex - 1)]
       \o FlattenFrom(sections, sectionIndex + 1)

\* buildBarStructure: the flat bar array of a score
buildBarStructure(scoreData) == FlattenFrom(scoreData.sections, 0)

\* flatBars[index] of JavaScript (0-based; NULL for undefined)
FlatAt(s, index) ==
  IF index >= 0 /\ index < Len(s.flatBars) THEN Some(s.flatBars[index + 1])
  ELSE NULL

getAbsoluteBarNumber(s) ==
  IF s.inCountoff THEN 0 - s.countoffBarsRemaining
  ELSE 1 + BarsBefore(s.scoreData.sections, s.currentSectionIndex)
         + s.currentBarInSection

\* getCurrentBarInfo ends by a TypeError: in the countoff `firstSection` is
\* undefined when the score has no section; outside it getAbsoluteBarNumber
\* reads `.bars` of `sections[i]` for every i < currentSectionIndex
BarInfoThrows(s) ==
  IF s.inCountoff THEN Len(s.scoreData.sections) = 0
  ELSE s.currentSectionIndex > Len(s.scoreData.sections)

getCurrentBarInfo(s) ==
  IF s.inCountoff
  THEN LET firstSection == s.scoreData.sections[1]
       IN Some([absoluteNumber |-> 0, sectionIndex |-> 0, barInSection |-> 0,
                tempo |-> firstSection.tempo, tempoTransitionBars |-> 0,
                timeSignature |-> firstSection.timeSignature,
                redirect |-> 0, redirectCount |-> 0, isFermata |-> FALSE,
                fermataDuration |-> 0, fermataDurationType |-> "beats",
                startRepeat |-> FALSE, endRepeat |-> FALSE, volta |-> {},
                segno |-> FALSE, coda |-> FALSE, dalSegno |-> FALSE,
                daCapo |-> FALSE, toCoda |-> FALSE, fine |-> FALSE,
                oscAddress |-> "", isCountoff |-> TRUE])
  ELSE FlatAt(s, getAbsoluteBarNumber(s) - 1)

(******************************* Tempo Model *******************************)
\* Math.round of the fraction num/den (den > 0): halves go up
Round(num, den) == (2 * num + den) \div (2 * den)

\* the interpolation that counts the progress from the bar before
getCurrentTempoLate(s) ==
  LET sections == s.scoreData.sections
      nextSectionIndex == s.currentSectionIndex + 1
  IN
  IF s.inCountoff
  THEN IF Len(sections) = 0 \/ sections[1].tempo = 0 THEN 120
       ELSE sections[1].tempo
  ELSE IF s.currentSectionIndex >= Len(sections) THEN 120
  ELSE
    LET currentSection == sections[s.currentSectionIndex + 1]
        transitionBars ==
          IF nextSectionIndex < Len(sections)
          THEN sections[nextSectionIndex + 1].tempoTransitionBars ELSE 0
        barsFromEnd == Len(currentSection.bars) - s.currentBarInSection
    IN IF transitionBars > 0 /\ barsFromEnd <= transitionBars
       THEN LET fromTempo == currentSection.tempo
                toTempo == sections[nextSectionIndex + 1].tempo
            IN Round(fromTempo * transitionBars
                       + (toTempo - fromTempo)
                           * (transitionBars - barsFromEnd),
                     transitionBars)
       ELSE currentSection.tempo

getCurrentTempo(s) ==
  LET sections == s.scoreData.sections
      nextSectionIndex == s.currentSectionIndex + 1
  IN
  IF s.inCountoff
  THEN IF Len(sections) = 0 \/ sections[1].tempo = 0 THEN 120
       ELSE sections[1].tempo
  ELSE IF s.currentSectionIndex >= Len(sections) THEN 120
  ELSE
    LET currentSection == sections[s.currentSectionIndex + 1]
        transitionBars ==
          IF nextSectionIndex < Len(sections)
          THEN sections[nextSectionIndex + 1].tempoTransitionBars ELSE 0
        barsFromEnd == Len(currentSection.bars) - s.currentBarInSection
    IN IF transitionBars > 0 /\ barsFromEnd <= transitionBars
       THEN LET fromTempo == currentSection.tempo
                toTempo == sections[nextSectionIndex + 1].tempo
            IN Round(fromTempo * transitionBars
                       + (toTempo - fromTempo)
                           * (transitionBars - barsFromEnd + 1),
                     transitionBars)
       ELSE currentSection.tempo

\* the duration that takes every fermata as a number of beats
getBarDurationInBeats(s, tempo, timeSignature, isFermata, fermataDuration, fermataDurationType) ==
  LET tempoPercentage ==
        IF s.scoreData.tempoPercentage = 0 THEN 100
        ELSE s.scoreData.tempoPercentage
  IN IF isFermata
     THEN [num |-> fermataDuration * 6000000,
           den |-> tempo * tempoPercentage]
     ELSE [num |-> timeSignature.beats * 6000000,
           den |-> tempo * tempoPercentage]

\* getBarDuration: the duration in milliseconds as the fraction num/den
getBarDuration(s, tempo, timeSignature, isFermata, fermataDuration, fermataDurationType) ==
  LET tempoPercentage ==
        IF s.scoreData.tempoPercentage = 0 THEN 100
        ELSE s.scoreData.tempoPercentage
  IN IF isFermata
     THEN IF fermataDurationType = "seconds"
          THEN [num |-> fermataDuration * 1000, den |-> 1]
          ELSE [num |-> fermataDuration * 6000000,
                den |-> tempo * tempoPercentage]
     ELSE [num |-> timeSignature.beats * 6000000,
           den |-> tempo * tempoPercentage]

\* beatDuration of the tick callback, again as a fraction
BeatDuration(barInfo, barDuration) ==
  IF barInfo.isFermata THEN barDuration
  ELSE [num |-> barDuration.num,
        den |-> barDuration.den * barInfo.timeSignature.beats]

(************************* collaborators' outputs **************************)
\* midiOutput.send([byte])
MidiSend(s, byte) == [s EXCEPT !.midiSent = Append(@, byte)]
\* io.emit(event, ...)
Emit(s, event) == [s EXCEPT !.ioEmit = Append(@, event)]
\* the outputs of the previous operation are forgotten when one begins
Begin(s) ==
  [s EXCEPT !.midiSent = <<>>, !.ioEmit = <<>>, !.oscSent = <<>>,
            !.songEndCalls = 0, !.threw = FALSE]

(******************************* MIDI clock ********************************)
\* "MIDI clock sends 24 pulses per quarter note"
PulsesPerQuarterNote == 24

\* msPerPulse of startMidiClock, the delay of the pulse timer, as a fraction
msPerPulse(tempo) == [num |-> 60000, den |-> tempo * PulsesPerQuarterNote]

stopMidiClock(s) ==
  LET s1 == IF s.midiClockInterval # NULL
            THEN [s EXCEPT !.midiClockInterval = NULL,
                           !.pulseTimers = @ - 1]
            ELSE s
  IN IF s1.midiOutput THEN MidiSend(s1, MidiStop) ELSE s1

startMidiClock(s, tempo) ==
  IF ~s.midiEnabled \/ ~s.midiOutput THEN s
  ELSE [MidiSend(stopMidiClock(s), MidiStart)
          EXCEPT !.midiClockInterval = Some(tempo), !.pulseTimers = @ + 1]

sendMidiContinue(s) ==
  IF ~s.midiEnabled \/ ~s.midiOutput THEN s ELSE MidiSend(s, MidiContinue)

updateMidiClockTempo(s, tempo) ==
  IF ~s.midiEnabled \/ ~s.midiOutput \/ ~s.isPlaying THEN s
  ELSE startMidiClock(stopMidiClock(s), tempo)

(***************************** Transport Clock *****************************)
\* the object the constructor leaves behind
Constructed(scoreData, repeatSong, midi) ==
  [scoreData |-> scoreData,
   repeatSong |-> repeatSong,
   oscEnabled |-> TRUE,
   midiEnabled |-> midi,
   midiOutput |-> midi,
   midiClockInterval |-> NULL,
   lastTriggeredBar |-> 0 - 1,
   isPlaying |-> FALSE,
   inCountoff |-> FALSE,
   countoffBarsRemaining |-> 0,
   currentSectionIndex |-> 0,
   currentBarInSection |-> 0,
   currentBeat |-> 0,
   barStartTime |-> NULL,
   updateInterval |-> FALSE,
   lastTempo |-> 0,
   loopEnabled |-> scoreData.loop.enabled,
   loopStart |-> scoreData.loop.start,
   loopEnd |-> scoreData.loop.end,
   pendingJump |-> NULL,
   syncOffset |-> 0,
   repeatStack |-> <<>>,
   currentPassNumber |-> 1,
   hasJumpedViaDSorDC |-> FALSE,
   shouldWatchForToCodaOrFine |-> FALSE,
   loopCurrentBarEnabled |-> FALSE,
   loopCurrentBarNumber |-> 0,
   flatBars |-> buildBarStructure(scoreData),
   redirectTracking |-> [key \in {} |-> 0],
   midiSent |-> <<>>,
   ioEmit |-> <<>>,
   oscSent |-> <<>>,
   songEndCalls |-> 0,
   tickTimers |-> 0,
   pulseTimers |-> 0,
   threw |-> FALSE]

\* startPlaybackLoop: the interval timer is created; its callback is tick
startPlaybackLoop(s) ==
  [s EXCEPT !.lastTempo = getCurrentTempo(s), !.updateInterval = TRUE,
            !.tickTimers = @ + 1]

\* variant: every play() starts the countoff, a resume too
StartsCountoffAlways(s) == s.scoreData.countoff > 0

\* "Start with countoff if specified and not resuming"
StartsCountoff(s) == s.barStartTime = NULL /\ s.scoreData.countoff > 0

play(s, t) ==
  IF s.isPlaying THEN s
  ELSE
    LET wasPlaying == s.barStartTime # NULL
        s1 == [s EXCEPT !.isPlaying = TRUE]
        s2 == IF StartsCountoff(s1)
              THEN [s1 EXCEPT !.inCountoff = TRUE,
                              !.countoffBarsRemaining = s1.scoreData.countoff,
                              !.currentSectionIndex = 0,
                              !.currentBarInSection = 0,
                              !.currentBeat = 0]
              ELSE s1
        s3 == IF s2.barStartTime = NULL
              THEN [s2 EXCEPT !.barStartTime = Some(t)] ELSE s2
        currentTempo == getCurrentTempo(s3)
        s4 == IF wasPlaying
              THEN startMidiClock(sendMidiContinue(s3), currentTempo)
              ELSE startMidiClock(s3, currentTempo)
    IN Emit(startPlaybackLoop(s4), "playback-started")

\* clearInterval(this.updateInterval) under `if (this.updateInterval)`
clearUpdateInterval(s) ==
  IF s.updateInterval
  THEN [s EXCEPT !.updateInterval = FALSE, !.tickTimers = @ - 1]
  ELSE s

\* variant: the pending jump survives the pause
PauseKeepsJump(s) ==
  IF ~s.isPlaying THEN s
  ELSE Emit(stopMidiClock(clearUpdateInterval(
              [s EXCEPT !.isPlaying = FALSE])),
            "playback-paused")

\* variant: the interval timer survives the pause
PauseKeepsTimer(s) ==
  IF ~s.isPlaying THEN s
  ELSE Emit(stopMidiClock([s EXCEPT !.isPlaying = FALSE,
                                    !.pendingJump = NULL]),
            "playback-paused")

pause(s) ==
  IF ~s.isPlaying THEN s
  ELSE Emit(stopMidiClock(clearUpdateInterval(
              [s EXCEPT !.isPlaying = FALSE, !.pendingJump = NULL])),
            "playback-paused")

\* variant: the score is replaced and playback starts over
updateScoreFromStart(s, newScoreData) ==
  Emit([s EXCEPT !.scoreData = newScoreData,
                 !.loopEnabled = newScoreData.loop.enabled,
                 !.loopStart = newScoreData.loop.start,
                 !.loopEnd = newScoreData.loop.end,
                 !.flatBars = buildBarStructure(newScoreData),
                 !.inCountoff = FALSE,
                 !.countoffBarsRemaining = 0,
                 !.currentSectionIndex = 0,
                 !.currentBarInSection = 0,
                 !.currentBeat = 0,
                 !.pendingJump = NULL],
       "score-data")

\* variant: only the position is reset
ResetPositionOnly(s) ==
  [s EXCEPT !.isPlaying = FALSE,
            !.inCountoff = FALSE,
            !.countoffBarsRemaining = 0,
            !.currentSectionIndex = 0,
            !.currentBarInSection = 0,
            !.currentBeat = 0,
            !.barStartTime = NULL]

\* the assignments at the head of stopPlayback
ResetTransport(s) ==
  [s EXCEPT !.isPlaying = FALSE,
            !.inCountoff = FALSE,
            !.countoffBarsRemaining = 0,
            !.currentSectionIndex = 0,
            !.currentBarInSection = 0,
            !.currentBeat = 0,
            !.barStartTime = NULL,
            !.lastTriggeredBar = 0 - 1,
            !.redirectTracking = [key \in {} |-> 0],
            !.pendingJump = NULL,
            !.syncOffset = 0,
            !.loopCurrentBarEnabled = FALSE,
            !.loopCurrentBarNumber = 0,
            !.repeatStack = <<>>,
            !.currentPassNumber = 1,
            !.hasJumpedViaDSorDC = FALSE,
            !.shouldWatchForToCodaOrFine = FALSE]

stopPlayback(s) ==
  Emit(stopMidiClock(clearUpdateInterval(ResetTransport(s))),
       "playback-stopped")

RECURSIVE LocateStrict(_, _, _)
\* variant: the last bar of a section is looked for in the next section
LocateStrict(sections, i, remaining) ==
  IF i >= Len(sections) THEN <<i, remaining>>
  ELSE IF remaining < Len(sections[i + 1].bars) THEN <<i, remaining>>
  ELSE LocateStrict(sections, i + 1, remaining - Len(sections[i + 1].bars))

RECURSIVE Locate(_, _, _)
\* the loop of executeJump: <<sectionIndex, remaining>> when it ends
Locate(sections, i, remaining) ==
  IF i >= Len(sections) THEN <<i, remaining>>
  ELSE IF remaining <= Len(sections[i + 1].bars) THEN <<i, remaining>>
  ELSE Locate(sections, i + 1, remaining - Len(sections[i + 1].bars))

executeJump(s, absoluteBarNumber, t) ==
  LET found == Locate(s.scoreData.sections, 0, absoluteBarNumber)
  IN Emit([s EXCEPT !.currentSectionIndex =
                      Min(found[1], Len(s.scoreData.sections) - 1),
                    !.currentBarInSection = found[2] - 1,
                    !.currentBeat = 0,
                    !.inCountoff = FALSE,
                    !.barStartTime = Some(t)],
          "state-update")

seekToBar(s, absoluteBarNumber, mode, t) ==
  IF mode = "direct" THEN executeJump(s, absoluteBarNumber, t)
  ELSE [s EXCEPT !.pendingJump =
                   Some([barNumber |-> absoluteBarNumber, mode |-> mode])]

setRepeat(s, repeat) == [s EXCEPT !.repeatSong = repeat]

updateScore(s, newScoreData) ==
  Emit([s EXCEPT !.scoreData = newScoreData,
                 !.loopEnabled = newScoreData.loop.enabled,
                 !.loopStart = newScoreData.loop.start,
                 !.loopEnd = newScoreData.loop.end,
                 !.flatBars = buildBarStructure(newScoreData)],
       "score-data")

setLoop(s, loopSettings) ==
  [s EXCEPT !.loopEnabled = loopSettings.enabled,
            !.loopStart = loopSettings.start,
            !.loopEnd = loopSettings.end]

setLoopCurrentBar(s, enabled) ==
  LET s1 == [s EXCEPT !.loopCurrentBarEnabled = enabled]
  IN IF enabled /\ s1.isPlaying /\ ~s1.inCountoff
     THEN [s1 EXCEPT !.loopCurrentBarNumber = getAbsoluteBarNumber(s1)]
     ELSE IF ~enabled THEN [s1 EXCEPT !.loopCurrentBarNumber = 0]
     ELSE s1

adjustSyncOffset(s, ms) ==
  IF ~s.isPlaying THEN s
  ELSE [s EXCEPT !.syncOffset = @ + ms,
                 !.barStartTime = Some(@[1] - ms)]

\* adjustSyncByBeat: one beat of the current bar, at the tempo of its
\* section; the beat durations of the scores are whole milliseconds
adjustSyncByBeat(s, direction) ==
  IF ~s.isPlaying \/ getCurrentBarInfo(s) = NULL THEN s
  ELSE
    LET barInfo == getCurrentBarInfo(s)[1]
        barDuration ==
          getBarDuration(s, barInfo.tempo, barInfo.timeSignature,
                         barInfo.isFermata, barInfo.fermataDuration,
                         barInfo.fermataDurationType)
        beatDuration == BeatDuration(barInfo, barDuration)
        adjustment == direction * (beatDuration.num \div beatDuration.den)
    IN [s EXCEPT !.syncOffset = @ + adjustment,
                 !.barStartTime = Some(@[1] - adjustment)]

\* the reset that takes the offset off whether playing or not and keeps it
resetSyncOffsetKept(s) ==
  IF s.barStartTime = NULL THEN s
  ELSE [s EXCEPT !.barStartTime = Some(@[1] + s.syncOffset)]

resetSyncOffset(s) ==
  IF ~s.isPlaying THEN [s EXCEPT !.syncOffset = 0]
  ELSE [s EXCEPT !.barStartTime = Some(@[1] + s.syncOffset),
                 !.syncOffset = 0]

(*************************** Navigation Resolver ***************************)
RECURSIVE findMatchingStartRepeatFrom(_, _)
findMatchingStartRepeatFrom(s, i) ==
  IF i < 0 THEN 1
  ELSE IF s.flatBars[i + 1].startRepeat THEN i + 1
  ELSE findMatchingStartRepeatFrom(s, i - 1)

findMatchingStartRepeat(s, endBarIndex) ==
  findMatchingStartRepeatFrom(s, endBarIndex - 1)

\* variant: no bar is ever skipped for its volta
NeverSkipsVolta(s, barInfo) == FALSE

shouldSkipBarDueToVolta(s, barInfo) ==
  IF barInfo.volta = {} THEN FALSE
  ELSE s.currentPassNumber \notin barInfo.volta

RECURSIVE MaxVoltaAfter(_, _, _)
\* the second loop of getMaxVoltaInRepeatSection
MaxVoltaAfter(s, i, maxVolta) ==
  IF i >= Len(s.flatBars) THEN maxVolta
  ELSE IF s.flatBars[i + 1].volta # {}
       THEN MaxVoltaAfter(s, i + 1,
                          Max(maxVolta, SetMax(s.flatBars[i + 1].volta)))
       ELSE maxVolta

RECURSIVE MaxVoltaWithin(_, _, _, _)
\* the first loop of getMaxVoltaInRepeatSection
MaxVoltaWithin(s, i, endBarIndex, maxVolta) ==
  IF i > endBarIndex THEN maxVolta
  ELSE LET bar == FlatAt(s, i)
       IN MaxVoltaWithin(s, i + 1, endBarIndex,
            IF bar # NULL /\ bar[1].volta # {}
            THEN Max(maxVolta, SetMax(bar[1].volta)) ELSE maxVolta)

getMaxVoltaInRepeatSection(s, startBarIndex, endBarIndex) ==
  MaxVoltaAfter(s, endBarIndex + 1,
                MaxVoltaWithin(s, startBarIndex, endBarIndex, 1))

\* 1-based number of the first bar with a segno, 0 for null
findSegnoBar(s) ==
  IF \E i \in 1..Len(s.flatBars) : s.flatBars[i].segno
  THEN CHOOSE i \in 1..Len(s.flatBars) :
         s.flatBars[i].segno /\ \A j \in 1..(i - 1) : ~s.flatBars[j].segno
  ELSE 0

\* 1-based number of the first bar with a coda, 0 for null
findCodaBar(s) ==
  IF \E i \in 1..Len(s.flatBars) : s.flatBars[i].coda
  THEN CHOOSE i \in 1..Len(s.flatBars) :
         s.flatBars[i].coda /\ \A j \in 1..(i - 1) : ~s.flatBars[j].coda
  ELSE 0

\* this.repeatStack.filter(r => r.startBar !== startBar)
WithoutRepeat(s, startBar) ==
  [s EXCEPT !.repeatStack = SelectSeq(@, LAMBDA r : r.startBar # startBar)]

\* index in repeatStack of repeatStack.find(r => r.startBar === startBar),
\* 0 when there is none
FindRepeat(s, startBar) ==
  IF \E i \in 1..Len(s.repeatStack) : s.repeatStack[i].startBar = startBar
  THEN CHOOSE i \in 1..Len(s.repeatStack) :
         /\ s.repeatStack[i].startBar = startBar
         /\ \A j \in 1..(i - 1) : s.repeatStack[j].startBar # startBar
  ELSE 0

RedirectCount(s, key) ==
  IF key \in DOMAIN s.redirectTracking THEN s.redirectTracking[key] ELSE 0

SetRedirectCount(s, key, count) ==
  [s EXCEPT !.redirectTracking =
     [k \in (DOMAIN @) \cup {key} |-> IF k = key THEN count ELSE @[k]]]

\* one bar forward as the code steps: <<state, moved>>; moved is FALSE at
\* the last bar of the last section
NextBar(s) ==
  LET sections == s.scoreData.sections
  IN IF s.currentBarInSection + 1 < Len(sections[s.currentSectionIndex + 1].bars)
     THEN <<[s EXCEPT !.currentBarInSection = @ + 1], TRUE>>
     ELSE IF s.currentSectionIndex + 1 < Len(sections)
     THEN <<[s EXCEPT !.currentSectionIndex = @ + 1,
                      !.currentBarInSection = 0], TRUE>>
     ELSE <<s, FALSE>>

RECURSIVE SkipVoltaBars(_, _)
\* the while loop of the volta skip scan
SkipVoltaBars(s, safetyCounter) ==
  IF safetyCounter >= 100 THEN s
  ELSE
    LET nextAbsoluteBar == getAbsoluteBarNumber(s)
        nextBarInfo == FlatAt(s, nextAbsoluteBar - 1)
    IN IF nextBarInfo = NULL \/ ~shouldSkipBarDueToVolta(s, nextBarInfo[1])
       THEN s
       ELSE
         LET s1 == IF nextBarInfo[1].endRepeat
                   THEN WithoutRepeat(s,
                          findMatchingStartRepeat(s, nextAbsoluteBar - 1))
                   ELSE s
             step == NextBar(s1)
         IN IF step[2] THEN SkipVoltaBars(step[1], safetyCounter + 1)
            ELSE s1

\* the end of advanceToNextBar, from the volta skip scan on
FinishAdvance(s, t) ==
  LET s1 == SkipVoltaBars(s, 0)
      landed == FlatAt(s1, getAbsoluteBarNumber(s1) - 1)
      s2 == IF /\ landed # NULL
               /\ landed[1].volta = {}
               /\ s1.currentPassNumber > 1
               /\ Len(s1.repeatStack) = 0
            THEN [s1 EXCEPT !.currentPassNumber = 1] ELSE s1
  IN [s2 EXCEPT !.currentBeat = 0, !.barStartTime = Some(t)]

\* "Advance to next bar": next bar, next section, or the end of the song
PlainAdvance(s, t) ==
  LET step == NextBar(s)
  IN IF step[2] THEN FinishAdvance(step[1], t)
     ELSE LET s1 == [s EXCEPT !.songEndCalls = @ + 1]
          IN IF s1.repeatSong
             THEN FinishAdvance([s1 EXCEPT !.currentSectionIndex = 0,
                                           !.currentBarInSection = 0,
                                           !.lastTriggeredBar = 0 - 1], t)
             ELSE stopPlayback(s1)

\* the loop check that lets the bar at loopEnd pass
SongLoopPast(s, currentAbsoluteBar, t) ==
  IF s.loopEnabled /\ s.loopEnd # 0 /\ currentAbsoluteBar > s.loopEnd
  THEN seekToBar([s EXCEPT !.lastTriggeredBar = 0 - 1],
                 IF s.loopStart # 0 THEN s.loopStart ELSE 1, "direct", t)
  ELSE PlainAdvance(s, t)

\* "Check for loop"
SongLoop(s, currentAbsoluteBar, t) ==
  IF s.loopEnabled /\ s.loopEnd # 0 /\ currentAbsoluteBar >= s.loopEnd
  THEN seekToBar([s EXCEPT !.lastTriggeredBar = 0 - 1],
                 IF s.loopStart # 0 THEN s.loopStart ELSE 1, "direct", t)
  ELSE PlainAdvance(s, t)

\* "Check for end repeat"
EndRepeat(s, currentAbsoluteBar, currentBarInfo, t) ==
  IF currentBarInfo = NULL \/ ~currentBarInfo[1].endRepeat
  THEN SongLoop(s, currentAbsoluteBar, t)
  ELSE
    LET info == currentBarInfo[1]
        shouldHonorEndRepeat ==
          info.volta = {} \/ ~shouldSkipBarDueToVolta(s, info)
        startRepeatBar == findMatchingStartRepeat(s, currentAbsoluteBar - 1)
        existing == FindRepeat(s, startRepeatBar)
    IN
    IF ~shouldHonorEndRepeat
    THEN SongLoop([WithoutRepeat(s, startRepeatBar)
                     EXCEPT !.currentPassNumber = 1], currentAbsoluteBar, t)
    ELSE IF existing = 0
    THEN seekToBar([s EXCEPT !.repeatStack =
                               Append(@, [startBar |-> startRepeatBar,
                                          timesPlayed |-> 1,
                                          endBar |-> currentAbsoluteBar]),
                             !.currentPassNumber = 2],
                   startRepeatBar, "direct", t)
    ELSE
      LET s1 == [s EXCEPT !.repeatStack[existing].timesPlayed = @ + 1]
          maxVoltaNumber ==
            getMaxVoltaInRepeatSection(s1, startRepeatBar - 1,
                                       currentAbsoluteBar - 1)
          maxRepeats == IF maxVoltaNumber > 1 THEN maxVoltaNumber ELSE 2
      IN IF s1.repeatStack[existing].timesPlayed < maxRepeats
         THEN seekToBar([s1 EXCEPT !.currentPassNumber = @ + 1],
                        startRepeatBar, "direct", t)
         ELSE SongLoop([WithoutRepeat(s1, startRepeatBar)
                          EXCEPT !.currentPassNumber = 1],
                       currentAbsoluteBar, t)

\* variant: the jump is taken once more than redirectCount says
ShouldRedirectOnceMore(visits, redirectCount) == visits <= redirectCount

\* "Check if we should redirect (before incrementing)"
ShouldRedirect(visits, redirectCount) == visits < redirectCount

\* the redirect that gives way to an end repeat on the same bar
RedirectAfterRepeat(s, currentAbsoluteBar, currentBarInfo, t) ==
  IF currentBarInfo = NULL \/ currentBarInfo[1].redirect = 0
        \/ currentBarInfo[1].endRepeat
  THEN EndRepeat(s, currentAbsoluteBar, currentBarInfo, t)
  ELSE
    LET info == currentBarInfo[1]
        redirectKey == <<currentAbsoluteBar, info.redirect>>
        s1 == SetRedirectCount(s, redirectKey, RedirectCount(s, redirectKey))
    IN IF RedirectCount(s1, redirectKey) < info.redirectCount
       THEN seekToBar(SetRedirectCount(s1, redirectKey,
                                       RedirectCount(s1, redirectKey) + 1),
                      info.redirect, "direct", t)
       ELSE EndRepeat(SetRedirectCount(s1, redirectKey, 0),
                      currentAbsoluteBar, currentBarInfo, t)

\* "Check for redirect with limit"
Redirect(s, currentAbsoluteBar, currentBarInfo, t) ==
  IF currentBarInfo = NULL \/ currentBarInfo[1].redirect = 0
  THEN EndRepeat(s, currentAbsoluteBar, currentBarInfo, t)
  ELSE
    LET info == currentBarInfo[1]
        redirectKey == <<currentAbsoluteBar, info.redirect>>
        s1 == SetRedirectCount(s, redirectKey, RedirectCount(s, redirectKey))
    IN IF ShouldRedirect(RedirectCount(s1, redirectKey), info.redirectCount)
       THEN seekToBar(SetRedirectCount(s1, redirectKey,
                                       RedirectCount(s1, redirectKey) + 1),
                      info.redirect, "direct", t)
       ELSE EndRepeat(SetRedirectCount(s1, redirectKey, 0),
                      currentAbsoluteBar, currentBarInfo, t)

\* variant: a Fine or To Coda marker counts on every pass
WatchedAlways(s, marker) == marker

\* a Fine or To Coda marker counts "only after D.S./D.C. jump"
Watched(s, marker) == marker /\ s.shouldWatchForToCodaOrFine

\* variant: the jump is recorded but Fine and To Coda are not armed
MarkJumpedUnarmed(s) == [s EXCEPT !.hasJumpedViaDSorDC = TRUE]

\* variant: the jump arms Fine and To Coda but is not recorded
MarkJumpedForgotten(s) == [s EXCEPT !.shouldWatchForToCodaOrFine = TRUE]

\* what a D.S. or D.C. jump records before it seeks
MarkJumped(s) ==
  [s EXCEPT !.hasJumpedViaDSorDC = TRUE, !.shouldWatchForToCodaOrFine = TRUE]

\* Fine, To Coda, Dal Segno and Da Capo, in the order of the code
Markers(s, t) ==
  LET currentAbsoluteBar == getAbsoluteBarNumber(s)
      currentBarInfo == FlatAt(s, currentAbsoluteBar - 1)
      has == currentBarInfo # NULL
      info == currentBarInfo[1]
  IN
  IF has /\ Watched(s, info.fine)
  THEN stopPlayback(s)
  ELSE IF has /\ Watched(s, info.toCoda) /\ findCodaBar(s) # 0
  THEN seekToBar([s EXCEPT !.shouldWatchForToCodaOrFine = FALSE],
                 findCodaBar(s), "direct", t)
  ELSE IF has /\ info.dalSegno /\ ~s.hasJumpedViaDSorDC /\ findSegnoBar(s) # 0
  THEN seekToBar(MarkJumped(s), findSegnoBar(s), "direct", t)
  ELSE IF has /\ info.daCapo /\ ~s.hasJumpedViaDSorDC
  THEN seekToBar(MarkJumped(s), 1, "direct", t)
  ELSE Redirect(s, currentAbsoluteBar, currentBarInfo, t)

\* variant: the countoff ends one bar early
CountoffTickEarly(s, t) ==
  LET s1 == [s EXCEPT !.countoffBarsRemaining = @ - 1]
      s2 == IF s1.countoffBarsRemaining <= 1
            THEN [s1 EXCEPT !.inCountoff = FALSE,
                            !.countoffBarsRemaining = 0,
                            !.currentSectionIndex = 0,
                            !.currentBarInSection = 0]
            ELSE s1
  IN [s2 EXCEPT !.currentBeat = 0, !.barStartTime = Some(t)]

\* the countoff branch of advanceToNextBar
CountoffTick(s, t) ==
  LET s1 == [s EXCEPT !.countoffBarsRemaining = @ - 1]
      s2 == IF s1.countoffBarsRemaining <= 0
            THEN [s1 EXCEPT !.inCountoff = FALSE,
                            !.currentSectionIndex = 0,
                            !.currentBarInSection = 0]
            ELSE s1
  IN [s2 EXCEPT !.currentBeat = 0, !.barStartTime = Some(t)]

\* variant: the score is consulted before the pending jump
advanceScoreFirst(s, t) ==
  IF s.loopCurrentBarEnabled /\ s.loopCurrentBarNumber # 0 /\ ~s.inCountoff
  THEN executeJump(s, s.loopCurrentBarNumber, t)
  ELSE IF s.inCountoff
  THEN CountoffTick(s, t)
  ELSE IF s.pendingJump # NULL /\ s.pendingJump[1].mode = "afterBar"
          /\ FlatAt(s, getAbsoluteBarNumber(s) - 1) # NULL
          /\ ~FlatAt(s, getAbsoluteBarNumber(s) - 1)[1].fine
  THEN [executeJump(s, s.pendingJump[1].barNumber, t)
          EXCEPT !.pendingJump = NULL]
  ELSE Markers(s, t)

advanceToNextBar(s, t) ==
  IF s.loopCurrentBarEnabled /\ s.loopCurrentBarNumber # 0 /\ ~s.inCountoff
  THEN executeJump(s, s.loopCurrentBarNumber, t)
  ELSE IF s.pendingJump # NULL /\ s.pendingJump[1].mode = "afterBar"
  THEN [executeJump(s, s.pendingJump[1].barNumber, t)
          EXCEPT !.pendingJump = NULL]
  ELSE IF s.inCountoff
  THEN CountoffTick(s, t)
  ELSE Markers(s, t)

(**************************** the tick callback ****************************)
\* elapsed >= barDuration in the tick callback run at time t
BarIsOver(s, barInfo, t) ==
  LET barDuration ==
        getBarDuration(s, getCurrentTempo(s), barInfo.timeSignature,
                       barInfo.isFermata, barInfo.fermataDuration,
                       barInfo.fermataDurationType)
  IN (t - s.barStartTime[1]) * barDuration.den >= barDuration.num

\* sendOscMessage
sendOscMessage(s, address) ==
  IF ~s.oscEnabled THEN s ELSE [s EXCEPT !.oscSent = Append(@, address)]

\* the callback of the interval timer of startPlaybackLoop, run at time t
tick(s, t) ==
  IF ~s.isPlaying THEN s
  ELSE IF BarInfoThrows(s) THEN [s EXCEPT !.threw = TRUE]
  ELSE
    LET found == getCurrentBarInfo(s) IN
    IF found = NULL THEN stopPlayback(s)
    ELSE
      LET barInfo == found[1]
          currentTempo == getCurrentTempo(s)
          barDuration ==
            getBarDuration(s, currentTempo, barInfo.timeSignature,
                           barInfo.isFermata, barInfo.fermataDuration,
                           barInfo.fermataDurationType)
          beatDuration == BeatDuration(barInfo, barDuration)
          elapsed == t - s.barStartTime[1]
          s1 == IF currentTempo # s.lastTempo
                THEN [updateMidiClockTempo(s, currentTempo)
                        EXCEPT !.lastTempo = currentTempo]
                ELSE s
          newBeat == (elapsed * beatDuration.den) \div beatDuration.num
          s2 == IF BarIsOver(s, barInfo, t)
                THEN advanceToNextBar(s1, t)
                ELSE IF newBeat # s1.currentBeat
                THEN LET s1b == [s1 EXCEPT !.currentBeat = newBeat]
                     IN IF /\ s1b.pendingJump # NULL
                           /\ s1b.pendingJump[1].mode = "nextBeat"
                        THEN [executeJump(s1b, s1b.pendingJump[1].barNumber, t)
                                EXCEPT !.pendingJump = NULL]
                        ELSE s1b
                ELSE s1
          s3 == IF ~s2.inCountoff
                   /\ barInfo.absoluteNumber # s2.lastTriggeredBar
                THEN LET s2b == [s2 EXCEPT !.lastTriggeredBar =
                                             barInfo.absoluteNumber]
                     IN IF barInfo.oscAddress # ""
                        THEN sendOscMessage(s2b, barInfo.oscAddress)
                        ELSE s2b
                ELSE s2
      IN Emit(s3, "state-update")

\* getCurrentState at time t: the fields beat and progress of the snapshot,
\* with the beats of its time signature; progress is the fraction num/den
getCurrentState(s, t) ==
  IF ~s.isPlaying \/ getCurrentBarInfo(s) = NULL
  THEN [isPlaying |-> FALSE, beat |-> 0, beats |-> 4,
        progress |-> [num |-> 0, den |-> 1]]
  ELSE
    LET barInfo == getCurrentBarInfo(s)[1]
        barDuration ==
          getBarDuration(s, getCurrentTempo(s), barInfo.timeSignature,
                         barInfo.isFermata, barInfo.fermataDuration,
                         barInfo.fermataDurationType)
        elapsed == t - s.barStartTime[1]
    IN [isPlaying |-> TRUE, beat |-> s.currentBeat,
        beats |-> barInfo.timeSignature.beats,
        progress |->
          IF elapsed * barDuration.den >= barDuration.num
          THEN [num |-> 1, den |-> 1]
          ELSE [num |-> elapsed * barDuration.den, den |-> barDuration.num]]

(********************************* history *********************************)
\* the bars entered by an operation that took the server from s to s1
Entered(s, s1) ==
  IF s1.isPlaying /\ ~s1.inCountoff /\ s1.barStartTime # s.barStartTime
  THEN <<getAbsoluteBarNumber(s1)>> ELSE <<>>

(********************************* actions *********************************)
TypeOK ==
  /\ srv.isPlaying \in BOOLEAN
  /\ now \in Nat
  /\ played \in Seq(Int)
  /\ issued \in 0..MaxCommands
  /\ triggered \in Nat

Start(scores, repeats, midis) ==
  /\ \E scoreData \in scores, repeatSong \in repeats, midi \in midis :
       srv = Constructed(scoreData, repeatSong, midi)
  /\ now = Epoch
  /\ played = <<>>
  /\ issued = 0
  /\ triggered = 0

\* the history after an operation that took the server from s to s1
History(rec, s, s1) ==
  IF ~rec THEN <<>>
  ELSE IF ~s.isPlaying /\ s.barStartTime = NULL THEN Entered(s, s1)
  ELSE played \o Entered(s, s1)

\* the OSC messages of the current bar after an operation that took the
\* server from s to s1: what it sent is for the bar that was current before
Triggers(rec, s, s1) ==
  IF ~rec \/ ~s1.isPlaying \/ Entered(s, s1) # <<>> THEN 0
  ELSE triggered + Len(s1.oscSent)

\* the play command
Play(rec) ==
  /\ ~srv.isPlaying
  /\ srv' = play(Begin(srv), now)
  /\ played' = History(rec, srv, srv')
  /\ triggered' = Triggers(rec, srv, srv')
  /\ UNCHANGED now

\* the interval timer fires dt milliseconds after the last event
TickAfter(dt, limit, rec) ==
  /\ srv.updateInterval
  /\ now + dt <= Epoch + limit
  /\ now' = now + dt
  /\ srv' = tick(Begin(srv), now')
  /\ played' = History(rec, srv, srv')
  /\ triggered' = Triggers(rec, srv, srv')
  /\ UNCHANGED issued

\* playback under ticks alone, with the history of the bars entered
PlayOnly == Play(TRUE) /\ UNCHANGED issued
TickOnly == \E dt \in TickSteps : TickAfter(dt, MaxTime, TRUE)

InitTick == Start(ScenarioScores \cup PlainScores, BOOLEAN, {TRUE})
NextTick == PlayOnly \/ TickOnly
SpecTick == InitTick /\ [][NextTick]_vars

(************************ playback with commands ***************************)
JumpModes == {"direct", "nextBeat", "afterBar"}
SyncSteps == {0 - 250, 250}
\* the timer callback is observed at these distances in the playback with
\* commands
CmdSteps == {250}

\* a client sends one more command
Command ==
  /\ issued < MaxCommands
  /\ issued' = issued + 1

PlayCommand == Play(FALSE) /\ Command

Tick == \E dt \in CmdSteps : TickAfter(dt, MaxCmdTime, FALSE)

\* time passes while no timer runs
Wait ==
  /\ ~srv.updateInterval
  /\ \E dt \in CmdSteps :
       /\ now + dt <= Epoch + MaxCmdTime
       /\ now' = now + dt
  /\ UNCHANGED <<srv, played, issued, triggered>>

Pause ==
  /\ Command
  /\ srv' = pause(Begin(srv))
  /\ UNCHANGED <<now, played, triggered>>

StopPlayback ==
  /\ Command
  /\ srv' = stopPlayback(Begin(srv))
  /\ UNCHANGED <<now, played, triggered>>

SeekToBar ==
  /\ Command
  /\ \E barNumber \in 1..Len(srv.flatBars), mode \in JumpModes :
       srv' = seekToBar(Begin(srv), barNumber, mode, now)
  /\ UNCHANGED <<now, played, triggered>>

SetLoopCurrentBar ==
  /\ Command
  /\ \E enabled \in BOOLEAN : srv' = setLoopCurrentBar(Begin(srv), enabled)
  /\ UNCHANGED <<now, played, triggered>>

AdjustSyncOffset ==
  /\ Command
  /\ \E ms \in SyncSteps : srv' = adjustSyncOffset(Begin(srv), ms)
  /\ UNCHANGED <<now, played, triggered>>

ResetSyncOffset ==
  /\ Command
  /\ srv' = resetSyncOffset(Begin(srv))
  /\ UNCHANGED <<now, played, triggered>>

Init == Start(CommandScores, {FALSE}, BOOLEAN)
Next ==
  \/ PlayCommand \/ Tick \/ Wait \/ Pause \/ StopPlayback \/ SeekToBar
  \/ SetLoopCurrentBar \/ AdjustSyncOffset \/ ResetSyncOffset
Spec == Init /\ [][Next]_vars

(************************** tick-only playback *****************************)
\* the transport has been started and has stopped by itself
Ended == ~srv.isPlaying /\ played # <<>>

\* played is the sequence expected, repeated when the song restarts, as far
\* as it goes
Follows(expected) ==
  \A i \in 1..Len(played) : played[i] = expected[((i - 1) % Len(expected)) + 1]

\* the same, and without repeatSong the song ends when expected is through
PlaysExactly(expected) ==
  /\ Follows(expected)
  /\ ~srv.repeatSong => Len(played) <= Len(expected)
  /\ Ended => ~srv.repeatSong /\ Len(played) = Len(expected)

\* bars 1 2 played k + 1 times (k jumps from bar 2), then bar 3
RedirectCycle(k) ==
  [p \in 1..(2 * k + 3) |->
     IF p = 2 * k + 3 THEN 3 ELSE IF p % 2 = 1 THEN 1 ELSE 2]

\* C1: in the score where bar 2 redirects to bar 1 with redirectCount = k
\* and bar 3 redirects to bar 1 once, ticks play 1 2 (k + 1 times: k jumps
\* from bar 2 and then the fall through with the counter back at 0), 3, the
\* one jump of bar 3, the same k jumps of bar 2 once more, 3, and the end;
\* the counter of (2,1) counts the jumps of the current round and is not
\* changed by bar 3, the counter of (3,1) is not changed by bar 2.
C1_RedirectCountCycles ==
  srv.scoreData.name = "redirect" =>
    LET k == srv.flatBars[2].redirectCount
        period == 2 * k + 3
        p == (Len(played) - 1) % period
        q == (Len(played) - 1) % (2 * period)
    IN /\ PlaysExactly(RedirectCycle(k) \o RedirectCycle(k))
       /\ srv.isPlaying /\ played # <<>> =>
            /\ DOMAIN srv.redirectTracking \subseteq {<<2, 1>>, <<3, 1>>}
            /\ RedirectCount(srv, <<2, 1>>)
                 = IF p = 2 * k + 2 THEN 0 ELSE p \div 2
            /\ RedirectCount(srv, <<3, 1>>) = IF q >= period THEN 1 ELSE 0

C1_Witness ==
  /\ srv.scoreData = RedirectScore(2)
  /\ Ended
  /\ played = <<1, 2, 1, 2, 1, 2, 3, 1, 2, 1, 2, 1, 2, 3>>

\* C2: start repeat; common; ending 1; ending 2; end repeat; next is played
\* 1 2 3 5 (jump back) 1 2 4 5 (continue) 6: the first pass skips the bar of
\* ending 2, the second pass the bar of ending 1, the repeat is taken once.
C2_FirstAndSecondEnding ==
  srv.scoreData.name = "volta" =>
    /\ PlaysExactly(<<1, 2, 3, 5, 1, 2, 4, 5, 6>>)
    /\ srv.isPlaying /\ played # <<>> =>
         srv.currentPassNumber
           = IF ((Len(played) - 1) % 9) + 1 \in 5..8 THEN 2 ELSE 1

C2_Witness ==
  /\ srv.scoreData = VoltaScore
  /\ Ended
  /\ played = <<1, 2, 3, 5, 1, 2, 4, 5, 6>>

DSCodaExpected == <<1, 2, 3, 4, 5, 6, 7, 8, 9, 3, 4, 5, 6, 10, 11, 12>>

\* C3: D.S. al Coda over 12 bars (segno 3, to coda 6, D.S. 9, coda 10) is
\* played 1..9, 3..6, 10, 11, 12 and then stops; the to coda marker of bar 6
\* does nothing on the first pass.
C3_DalSegnoAlCoda ==
  (srv.scoreData.name = "dsCoda" /\ ~srv.repeatSong) =>
    PlaysExactly(DSCodaExpected)

C3_Witness ==
  /\ srv.scoreData = DSCodaScore
  /\ Ended
  /\ played = DSCodaExpected

\* the tick that a step of playback runs finds the current bar over
Completing ==
  /\ srv.isPlaying
  /\ getCurrentBarInfo(srv) # NULL
  /\ BarIsOver(srv, getCurrentBarInfo(srv)[1], now')

\* the bar that is played
CurrentBar == getCurrentBarInfo(srv)[1]

AtLastBar == getAbsoluteBarNumber(srv) = Len(srv.flatBars)

\* C4 as claimed: a fine bar does not stop playback before a D.S./D.C. jump
\* and its first completion after one stops it.
C4_FineStopsAfterJump ==
  [][(Completing /\ ~srv.inCountoff /\ CurrentBar.fine) =>
       IF srv.hasJumpedViaDSorDC THEN ~srv'.isPlaying
       ELSE srv'.isPlaying \/ AtLastBar]_vars

\* C4 amended: a fine bar does not stop playback before a D.S./D.C. jump;
\* its first completion after one stops playback unless a To Coda jump was
\* taken since (which ends the watching for Fine).  D.C. al Fine over 9 bars
\* with fine on 5 plays 1..9, 1..5 and stops, with or without repeatSong.
C4_FineStopsWhileWatched ==
  /\ [](srv.scoreData.name = "dcFine" =>
          /\ Follows(<<1, 2, 3, 4, 5, 6, 7, 8, 9, 1, 2, 3, 4, 5>>)
          /\ Len(played) <= 14
          /\ Ended => Len(played) = 14)
  /\ [](srv.scoreData.name = "fineOnly" => PlaysExactly(<<1, 2, 3>>))
  /\ [](srv.scoreData.name = "codaFine" /\ ~srv.repeatSong =>
          PlaysExactly(<<1, 2, 1, 3, 4, 5>>))
  /\ [][(Completing /\ ~srv.inCountoff /\ CurrentBar.fine) =>
          IF srv.hasJumpedViaDSorDC /\ srv.shouldWatchForToCodaOrFine
          THEN ~srv'.isPlaying
          ELSE srv'.isPlaying \/ AtLastBar]_vars

C4_Witness ==
  /\ srv.scoreData = DCFineScore
  /\ Ended
  /\ played = <<1, 2, 3, 4, 5, 6, 7, 8, 9, 1, 2, 3, 4, 5>>

\* C5: a score of N bars without navigation markers, played without
\* repeatSong, plays 1, 2, ..., N once each and stops; the number of the
\* current bar never exceeds N.
C5_PlainScorePlaysEachBarOnce ==
  (srv.scoreData.name = "plain" /\ ~srv.repeatSong) =>
    /\ PlaysExactly([i \in 1..Len(srv.flatBars) |-> i])
    /\ srv.isPlaying /\ ~srv.inCountoff =>
         getAbsoluteBarNumber(srv) <= Len(srv.flatBars)

\* the same for the scores that have no empty section
C5_WithoutEmptySections ==
  (\A i \in DOMAIN srv.scoreData.sections :
     Len(srv.scoreData.sections[i].bars) > 0)
    => C5_PlainScorePlaysEachBarOnce

\* C6: with repeatSong, the completion of the last bar of a score without
\* navigation markers calls the song-end callback once and leaves the
\* transport playing at section 0 bar 0 outside the countoff; the transport
\* never stops.
C6_RepeatSongRestarts ==
  /\ [](srv.scoreData.name = "plain" /\ srv.repeatSong => ~Ended)
  /\ [][(/\ srv.scoreData.name = "plain" /\ srv.repeatSong
         /\ Completing /\ ~srv.inCountoff /\ AtLastBar) =>
          /\ srv'.songEndCalls = 1
          /\ srv'.isPlaying /\ ~srv'.inCountoff
          /\ srv'.currentSectionIndex = 0 /\ srv'.currentBarInSection = 0]_vars

\* the same for the scores that have no empty section
C6_WithoutEmptySections ==
  /\ [](/\ srv.scoreData.name = "plain" /\ srv.repeatSong
        /\ \A i \in DOMAIN srv.scoreData.sections :
             Len(srv.scoreData.sections[i].bars) > 0
        => ~Ended)
  /\ [][(/\ srv.scoreData.name = "plain" /\ srv.repeatSong
         /\ \A i \in DOMAIN srv.scoreData.sections :
              Len(srv.scoreData.sections[i].bars) > 0
         /\ Completing /\ ~srv.inCountoff /\ AtLastBar) =>
          /\ srv'.songEndCalls = 1
          /\ srv'.isPlaying /\ ~srv'.inCountoff
          /\ srv'.currentSectionIndex = 0 /\ srv'.currentBarInSection = 0]_vars

\* C7: play() on a stopped transport enters the countoff with
\* countoffBarsRemaining = countoff when countoff > 0 and starts at section 0
\* bar 0 otherwise; in the countoff every bar completion takes one off
\* countoffBarsRemaining and nothing else changes it, and the completion at 1
\* leaves the countoff at section 0 bar 0, still playing; in the countoff
\* the bar number is not positive and the tempo is that of the first section.
C7_Countoff ==
  /\ [](srv.inCountoff =>
          /\ getAbsoluteBarNumber(srv) <= 0
          /\ CurrentBar.absoluteNumber <= 0
          /\ srv.countoffBarsRemaining \in 1..srv.scoreData.countoff
          /\ getCurrentTempo(srv) = srv.scoreData.sections[1].tempo
          /\ played = <<>>)
  /\ [][(~srv.isPlaying /\ srv'.isPlaying) =>
          /\ srv'.currentSectionIndex = 0 /\ srv'.currentBarInSection = 0
          /\ IF srv.scoreData.countoff > 0
             THEN /\ srv'.inCountoff
                  /\ srv'.countoffBarsRemaining = srv.scoreData.countoff
             ELSE ~srv'.inCountoff /\ played' = <<1>>]_vars
  /\ [][srv.inCountoff =>
          IF ~Completing
          THEN /\ srv'.inCountoff
               /\ srv'.countoffBarsRemaining = srv.countoffBarsRemaining
          ELSE IF srv.countoffBarsRemaining > 1
          THEN /\ srv'.inCountoff
               /\ srv'.countoffBarsRemaining = srv.countoffBarsRemaining - 1
          ELSE /\ ~srv'.inCountoff /\ srv'.isPlaying
               /\ srv'.currentSectionIndex = 0
               /\ srv'.currentBarInSection = 0
               /\ played' = <<1>>]_vars

C7_Witness ==
  /\ srv.scoreData.countoff = 2
  /\ srv.isPlaying /\ ~srv.inCountoff
  /\ played = <<1>>
  /\ now >= Epoch + 2000

(************************* playback with commands **************************)
\* the step is a pause() of a playing transport
Pausing == srv.isPlaying /\ srv'.ioEmit = <<"playback-paused">>

\* the transport is paused: not playing, with the bar start time kept
Paused == ~srv.isPlaying /\ srv.barStartTime # NULL

\* the transport is stopped
Stopped == ~srv.isPlaying /\ srv.barStartTime = NULL

\* the step is a play() that starts the transport
Starting == ~srv.isPlaying /\ srv'.isPlaying

\* the position and countoff fields are the same after the step
PositionKept ==
  /\ srv'.currentSectionIndex = srv.currentSectionIndex
  /\ srv'.currentBarInSection = srv.currentBarInSection
  /\ srv'.currentBeat = srv.currentBeat
  /\ srv'.inCountoff = srv.inCountoff
  /\ srv'.countoffBarsRemaining = srv.countoffBarsRemaining

\* C8: pause() of a playing transport leaves currentSectionIndex,
\* currentBarInSection, currentBeat, inCountoff and countoffBarsRemaining as
\* they are and leaves the transport paused; play() of a paused transport
\* leaves the same fields as they are (the same bar, no new countoff) and
\* keeps the bar start time.
C8_PauseKeepsPosition ==
  /\ [][Pausing => PositionKept /\ Paused']_vars
  /\ [][(Paused /\ Starting) =>
          PositionKept /\ srv'.barStartTime = srv.barStartTime]_vars

\* a transport paused in the second beat of a bar of the score has been
\* resumed, after a countoff that is over
C8_Witness ==
  /\ srv.isPlaying /\ ~srv.inCountoff
  /\ srv.ioEmit = <<"playback-started">>
  /\ srv.scoreData.countoff > 0
  /\ srv.currentBeat = 1
  /\ issued = 3

\* the fields of the transport state have their initial values, those of a
\* new server object
TransportReset ==
  LET fresh == Constructed(srv.scoreData, srv.repeatSong, srv.midiEnabled)
  IN /\ ~srv.isPlaying /\ ~srv.inCountoff
     /\ srv.countoffBarsRemaining = 0
     /\ srv.currentSectionIndex = 0 /\ srv.currentBarInSection = 0
     /\ srv.currentBeat = 0
     /\ srv.barStartTime = NULL
     /\ srv.pendingJump = NULL
     /\ srv.syncOffset = 0
     /\ ~srv.loopCurrentBarEnabled /\ srv.loopCurrentBarNumber = 0
     /\ srv.repeatStack = <<>>
     /\ srv.currentPassNumber = 1
     /\ ~srv.hasJumpedViaDSorDC /\ ~srv.shouldWatchForToCodaOrFine
     /\ DOMAIN srv.redirectTracking = {}
     /\ \A f \in {"isPlaying", "inCountoff", "countoffBarsRemaining",
                  "currentSectionIndex", "currentBarInSection", "currentBeat",
                  "barStartTime", "pendingJump", "syncOffset",
                  "loopCurrentBarEnabled", "loopCurrentBarNumber",
                  "repeatStack", "currentPassNumber", "hasJumpedViaDSorDC",
                  "shouldWatchForToCodaOrFine", "redirectTracking"} :
          srv[f] = fresh[f]

\* the step is a stop command
Stopping == srv'.ioEmit = <<"playback-stopped">>

\* C9: after the stop command, from whatever state, the transport state has
\* its initial values; a play() that follows leaves the server as play()
\* leaves a new server object at that time.
C9_StopResetsTransport ==
  /\ [][Stopping => TransportReset']_vars
  /\ [][(srv.ioEmit = <<"playback-stopped">> /\ Starting) =>
          srv' = play(Constructed(srv.scoreData, srv.repeatSong,
                                  srv.midiEnabled), now)]_vars

\* the stop command has reset a transport that was started, after two other
\* commands and 750 ms or more
C9_Witness ==
  /\ srv.ioEmit = <<"playback-stopped">>
  /\ srv.lastTempo > 0
  /\ issued = 4
  /\ now >= Epoch + 750

RECURSIVE Count(_, _)
Count(seq, x) ==
  IF seq = <<>> THEN 0
  ELSE (IF seq[1] = x THEN 1 ELSE 0) + Count(Tail(seq), x)

\* the step is a play() that directly follows a pause()
Resuming == srv.ioEmit = <<"playback-paused">> /\ Starting

\* C10: with MIDI output, a play() that resumes a paused transport sends MIDI
\* Continue and no MIDI Start; a play() of a stopped transport sends MIDI
\* Start and no MIDI Continue.
C10_ResumeSendsContinueOnly ==
  [][(Starting /\ srv.midiEnabled /\ srv.midiOutput) =>
       /\ Resuming =>
            /\ Count(srv'.midiSent, MidiContinue) = 1
            /\ Count(srv'.midiSent, MidiStart) = 0
       /\ Stopped =>
            /\ Count(srv'.midiSent, MidiStart) = 1
            /\ Count(srv'.midiSent, MidiContinue) = 0]_vars

(*************************** playback with OSC *****************************)
\* the plain score of layout l with an OSC address on every bar and the
\* loop settings given
OscScore(l, loop) ==
  [Score("osc", 0,
     [i \in DOMAIN l |->
        Section(IF i = 2 THEN 240 ELSE 120, IF i = 1 THEN 2 ELSE 1, 0,
                [b \in 1..l[i] |-> [PlainBar EXCEPT !.oscAddress = "/bar"]])])
     EXCEPT !.loop = loop]

OscScores ==
  { OscScore(l, loop) :
      l \in {<<1>>, <<2>>, <<2, 1>>},
      loop \in {NoLoop, [enabled |-> TRUE, start |-> 1, end |-> 2]} }

\* a seek command, with the histories kept
Seek(modes) ==
  /\ Command
  /\ \E barNumber \in 1..Len(srv.flatBars), mode \in modes :
       srv' = seekToBar(Begin(srv), barNumber, mode, now)
  /\ played' = History(TRUE, srv, srv')
  /\ triggered' = Triggers(TRUE, srv, srv')
  /\ UNCHANGED now

PlayOsc == Play(TRUE) /\ UNCHANGED issued
TickOsc == \E dt \in TickSteps : TickAfter(dt, MaxOscTime, TRUE)
SeekOsc == Seek({"direct"})

InitOsc == Start(OscScores, BOOLEAN, {FALSE})
NextOsc == PlayOsc \/ TickOsc \/ SeekOsc
SpecOsc == InitOsc /\ [][NextOsc]_vars

\* C13: for every entry of playback into a bar with an OSC address, the
\* message of the bar is sent at most once: what an operation sends for the
\* bar that was current when it began, added to what was sent for the bar
\* since playback entered it, is at most one message.
C13_OscAtMostOncePerEntry ==
  [][triggered + Len(srv'.oscSent) <= 1]_vars

(************************ playback with direct seeks ***********************)
PlaySeek == Play(TRUE) /\ UNCHANGED issued
TickSeek == \E dt \in TickSteps : TickAfter(dt, MaxSeekTime, TRUE)
SeekDirect == issued < MaxSeeks /\ Seek({"direct"})

InitSeek == Start(PlainScores, {FALSE}, {FALSE})
NextSeek == PlaySeek \/ TickSeek \/ SeekDirect
SpecSeek == InitSeek /\ [][NextSeek]_vars

\* C14: in every state of the server, whatever the layout of the sections,
\* a direct seek to bar n with 1 <= n <= N leaves the transport at bar n
\* (getAbsoluteBarNumber is n and the flat bar addressed has absoluteNumber n)
\* with currentBeat 0, outside the countoff, with the bar started at the time
\* of the seek.
C14_DirectSeekLandsOnBar ==
  \A n \in 1..Len(srv.flatBars) :
    LET s1 == seekToBar(Begin(srv), n, "direct", now)
    IN /\ getAbsoluteBarNumber(s1) = n
       /\ getCurrentBarInfo(s1) # NULL
       /\ getCurrentBarInfo(s1)[1].absoluteNumber = n
       /\ s1.currentBeat = 0
       /\ ~s1.inCountoff
       /\ s1.barStartTime = Some(now)

\* playback of sections of 2, 0 and 2 bars has been sent from bar 1 to bar 3,
\* the first bar after the empty section, by a direct seek
C14_Witness ==
  /\ srv.scoreData = PlainScore(<<2, 0, 2>>, 0)
  /\ srv.isPlaying
  /\ srv.ioEmit = <<"state-update">>
  /\ played = <<1, 3>>
  /\ srv.currentSectionIndex = 2 /\ srv.currentBarInSection = 0
  /\ srv.barStartTime = Some(now)
  /\ now > Epoch

(********************** playback with requested jumps **********************)
\* a score with every navigation marker, at 240 bpm: a countoff of one bar;
\* bars 1..2 of two beats: segno, fine and start repeat on 1, end repeat and
\* to coda on 2; bars 3..6 of one beat: a redirect to 1 on 3, D.S. on 4, the
\* coda with a fermata of one beat on 5, D.C. on 6; the song loop over 2..6
JumpScore ==
  [Score("jump", 1,
     <<Section(240, 2, 0,
         <<[PlainBar EXCEPT !.segno = TRUE, !.fine = TRUE,
                            !.startRepeat = TRUE],
           [PlainBar EXCEPT !.endRepeat = TRUE, !.toCoda = TRUE]>>),
       Section(240, 1, 0,
         <<[PlainBar EXCEPT !.redirect = 1, !.redirectCount = 1],
           [PlainBar EXCEPT !.dalSegno = TRUE],
           [PlainBar EXCEPT !.coda = TRUE, !.isFermata = TRUE,
                            !.fermataDuration = 1],
           [PlainBar EXCEPT !.daCapo = TRUE]>>)>>)
     EXCEPT !.loop = [enabled |-> TRUE, start |-> 2, end |-> 6]]

PlayJump == Play(TRUE) /\ UNCHANGED issued
TickJump == \E dt \in CmdSteps : TickAfter(dt, MaxJumpTime, TRUE)
RequestJump == issued < MaxJumps /\ Seek(JumpModes)
ToggleLoopCurrentBar == issued < MaxJumps /\ SetLoopCurrentBar

InitJump == Start({JumpScore}, {FALSE}, {FALSE})
NextJump == PlayJump \/ TickJump \/ RequestJump \/ ToggleLoopCurrentBar
SpecJump == InitJump /\ [][NextJump]_vars

\* a jump of the mode given is pending
Pending(mode) == srv.pendingJump # NULL /\ srv.pendingJump[1].mode = mode

\* the step is a run of the timer callback
Ticking == srv.isPlaying /\ now' # now

\* the timer callback that runs in this step finds the current bar over
CompletingTick == Ticking /\ Completing

\* loop-current-bar is in force: enabled, with a stored bar, not in countoff
LoopingBar ==
  /\ srv.loopCurrentBarEnabled
  /\ srv.loopCurrentBarNumber # 0
  /\ ~srv.inCountoff

\* after the step the transport plays bar n from its start, begun at the
\* time of the step
LandsOn(n) ==
  /\ srv'.isPlaying /\ ~srv'.inCountoff
  /\ getAbsoluteBarNumber(srv') = n
  /\ srv'.currentBeat = 0
  /\ srv'.barStartTime = Some(now')

\* the step took no score-driven action: the countoff, the repeats, the
\* redirect counters and the D.S./D.C. flags are as before and the song has
\* not ended
ScoreActionsSkipped ==
  /\ srv'.countoffBarsRemaining = srv.countoffBarsRemaining
  /\ srv'.repeatStack = srv.repeatStack
  /\ srv'.currentPassNumber = srv.currentPassNumber
  /\ srv'.redirectTracking = srv.redirectTracking
  /\ srv'.hasJumpedViaDSorDC = srv.hasJumpedViaDSorDC
  /\ srv'.shouldWatchForToCodaOrFine = srv.shouldWatchForToCodaOrFine
  /\ srv'.songEndCalls = 0

\* the step is a request that leaves a jump of the mode given pending
Requesting(mode) ==
  /\ srv'.pendingJump # NULL
  /\ srv'.pendingJump # srv.pendingJump
  /\ srv'.pendingJump[1].mode = mode

\* the section and the bar in it are the same after the step
BarKept ==
  /\ srv'.currentSectionIndex = srv.currentSectionIndex
  /\ srv'.currentBarInSection = srv.currentBarInSection
  /\ srv'.inCountoff = srv.inCountoff
  /\ srv'.barStartTime = srv.barStartTime

\* C15 as claimed: a request with mode afterBar leaves the position alone, a
\* tick inside the bar leaves the bar and the pending jump alone, and the
\* tick that completes the bar executes the jump in place of every
\* score-driven action and leaves pendingJump null.
C15_AfterBarJumpAtEveryCompletion ==
  /\ [][Requesting("afterBar") => BarKept]_vars
  /\ [][(Ticking /\ Pending("afterBar")) =>
          IF Completing
          THEN /\ LandsOn(srv.pendingJump[1].barNumber)
               /\ srv'.pendingJump = NULL
               /\ ScoreActionsSkipped
          ELSE BarKept /\ srv'.pendingJump = srv.pendingJump]_vars

\* C15 amended: the same unless loop-current-bar is in force at the
\* completion of the bar; then the jump is not executed and stays pending.
C15_AfterBarJumpUnlessLoopingBar ==
  /\ [][Requesting("afterBar") => BarKept]_vars
  /\ [][(Ticking /\ Pending("afterBar")) =>
          IF ~Completing
          THEN BarKept /\ srv'.pendingJump = srv.pendingJump
          ELSE IF LoopingBar
          THEN srv'.pendingJump = srv.pendingJump
          ELSE /\ LandsOn(srv.pendingJump[1].barNumber)
               /\ srv'.pendingJump = NULL
               /\ ScoreActionsSkipped]_vars

\* after a seek to bar 6 and its D.C., a jump to bar 5 requested in bar 1
\* was executed when bar 1 was over, where its watched Fine would have
\* stopped playback
C15_Witness ==
  /\ played = <<6, 1, 5>>
  /\ srv.isPlaying
  /\ srv.shouldWatchForToCodaOrFine
  /\ srv.pendingJump = NULL
  /\ srv.barStartTime = Some(Epoch + 750)
  /\ now = Epoch + 750

\* newBeat of the timer callback that runs in this step
NewBeat ==
  LET barDuration ==
        getBarDuration(srv, getCurrentTempo(srv), CurrentBar.timeSignature,
                       CurrentBar.isFermata, CurrentBar.fermataDuration,
                       CurrentBar.fermataDurationType)
      beatDuration == BeatDuration(CurrentBar, barDuration)
  IN ((now' - srv.barStartTime[1]) * beatDuration.den) \div beatDuration.num

\* the timer callback that runs in this step finds a beat boundary passed:
\* the bar is over or the beat is another one
BeatBoundary == Completing \/ NewBeat # srv.currentBeat

\* C16: while a jump of mode nextBeat is pending, the first tick that finds a
\* beat boundary passed, a bar line included, executes the jump and leaves
\* pendingJump null; a tick before that leaves the bar and the pending jump
\* alone.
C16_NextBeatJumpAtFirstBoundary ==
  [][(Ticking /\ Pending("nextBeat")) =>
       IF BeatBoundary
       THEN LandsOn(srv.pendingJump[1].barNumber) /\ srv'.pendingJump = NULL
       ELSE BarKept /\ srv'.pendingJump = srv.pendingJump]_vars

\* setLoopCurrentBar(true) is called in this step
EnablingLoopCurrentBar ==
  /\ now' = now
  /\ ~srv.loopCurrentBarEnabled
  /\ srv'.loopCurrentBarEnabled

\* C17: enabling loop-current-bar in a bar of the score stores that bar, and
\* while it is enabled outside the countoff every bar completion jumps to the
\* stored bar, with the pending jump, the passes and the watch for To Coda and
\* Fine left alone and playback going on.
C17_LoopCurrentBarOverridesAll ==
  [][/\ (EnablingLoopCurrentBar /\ srv.isPlaying /\ ~srv.inCountoff) =>
          srv'.loopCurrentBarNumber = getAbsoluteBarNumber(srv)
     /\ (CompletingTick /\ srv.loopCurrentBarEnabled /\ ~srv.inCountoff) =>
          /\ srv.loopCurrentBarNumber # 0
          /\ LandsOn(srv.loopCurrentBarNumber)
          /\ srv'.pendingJump = srv.pendingJump
          /\ ScoreActionsSkipped]_vars

(************************ playback with a song loop ************************)
PlayLoop == Play(TRUE) /\ UNCHANGED issued

TickLoop == \E dt \in TickSteps : TickAfter(dt, MaxLoopTime, TRUE)

\* set-loop with a range inside the score
SetLoop ==
  /\ issued < MaxLoops
  /\ Command
  /\ \E enabled \in BOOLEAN, end \in 1..Len(srv.flatBars) :
       \E start \in 1..end :
         srv' = setLoop(Begin(srv),
                        [enabled |-> enabled, start |-> start, end |-> end])
  /\ UNCHANGED <<now, played, triggered>>

\* plain scores of one to four bars, with an empty section first, in the
\* middle, last, or nowhere, without and with a countoff
LoopScores ==
  { PlainScore(l, 0) : l \in {<<1>>, <<1, 1, 2>>, <<0, 2>>, <<2, 0, 1>>, <<2, 0>>} }
    \cup {PlainScore(<<2, 1>>, 1)}

InitLoop == Start(LoopScores, {FALSE}, {FALSE})

NextLoop == PlayLoop \/ TickLoop \/ SetLoop

SpecLoop == InitLoop /\ [][NextLoop]_vars

\* the song loop is on with a range inside the score
LoopInRange ==
  /\ srv.loopEnabled
  /\ 1 <= srv.loopStart /\ srv.loopStart <= srv.loopEnd
  /\ srv.loopEnd <= Len(srv.flatBars)

\* the transport plays a bar of the score
InBar == srv.isPlaying /\ ~srv.inCountoff /\ getCurrentBarInfo(srv) # NULL

\* C18: with the song loop on and 1 <= loopStart <= loopEnd <= N, the
\* completion of a bar numbered loopEnd or more jumps to loopStart, and a tick
\* in a bar numbered loopEnd or less leaves the transport playing a bar
\* numbered loopEnd or less.
C18_SongLoopKeepsPlaybackInside ==
  [][(Ticking /\ LoopInRange /\ InBar) =>
       /\ (Completing /\ getAbsoluteBarNumber(srv) >= srv.loopEnd) =>
            LandsOn(srv.loopStart)
       /\ getAbsoluteBarNumber(srv) <= srv.loopEnd =>
            /\ srv'.isPlaying /\ ~srv'.inCountoff
            /\ getCurrentBarInfo(srv') # NULL
            /\ getAbsoluteBarNumber(srv') <= srv.loopEnd]_vars

\* bars 1, 2, 3 of four were played, the loop was set to 2..3 in bar 3, and
\* the completion of bar 3 went back to bar 2 twice
C18_Witness ==
  /\ Len(srv.flatBars) = 4
  /\ srv.loopEnabled /\ srv.loopStart = 2 /\ srv.loopEnd = 3
  /\ srv.isPlaying
  /\ played = <<1, 2, 3, 2, 3, 2>>
  /\ srv.barStartTime = Some(now)

(********************* playback with tempo transitions *********************)
\* the tempos of the first and the second section
TempoPairs == {<<120, 140>>, <<140, 120>>, <<90, 97>>, <<200, 60>>}

\* n one-beat bars at the first tempo, then one bar of a section at the second
\* tempo that declares a transition of T bars
TempoScore(pair, n, T) ==
  Score("tempo", 0,
    <<Section(pair[1], 1, 0, PlainBars(n)),
      Section(pair[2], 1, T, PlainBars(1))>>)

TempoScores ==
  { TempoScore(pair, n, T) :
      pair \in TempoPairs, n \in 1..MaxTempoBars, T \in 0..MaxTransition }

PlayTempo == Play(TRUE) /\ UNCHANGED issued

TickTempo == \E dt \in TickSteps : TickAfter(dt, MaxTempoTime, TRUE)

InitTempo == Start(TempoScores, {FALSE}, {FALSE})

NextTempo == PlayTempo \/ TickTempo

SpecTempo == InitTempo /\ [][NextTempo]_vars

\* the transport plays a bar of a section that has a section after it
BeforeNextSection ==
  /\ InBar
  /\ srv.currentSectionIndex + 1 < Len(srv.scoreData.sections)

ThisSection == srv.scoreData.sections[srv.currentSectionIndex + 1]

NextSection == srv.scoreData.sections[srv.currentSectionIndex + 2]

BarsFromEnd == Len(ThisSection.bars) - srv.currentBarInSection

\* 120 to 140 over the last four of five bars
ExampleTempos == <<120, 125, 130, 135, 140>>

\* C19: when the next section declares tempoTransitionBars = T > 0, the tempo
\* of the last bar of the section is the next section's tempo, the tempo of
\* the bar before the last T bars is the section's own, the tempo of a bar
\* among the last T is round(from + (to - from) * (T - barsFromEnd + 1) / T),
\* and 120 to 140 over 4 bars gives 125, 130, 135, 140.
C19_TempoTransition ==
  (BeforeNextSection /\ NextSection.tempoTransitionBars > 0) =>
    LET T == NextSection.tempoTransitionBars
        from == ThisSection.tempo
        to == NextSection.tempo
    IN /\ BarsFromEnd = 1 => getCurrentTempo(srv) = to
       /\ BarsFromEnd = T + 1 => getCurrentTempo(srv) = from
       /\ BarsFromEnd <= T =>
            getCurrentTempo(srv)
              = Round(from * T + (to - from) * (T - BarsFromEnd + 1), T)
       /\ (from = 120 /\ to = 140 /\ T = 4 /\ Len(ThisSection.bars) = 5) =>
            getCurrentTempo(srv) = ExampleTempos[srv.currentBarInSection + 1]

\* the third of five bars at 120 before a section at 140 with a transition of
\* four bars is played at 130, after a bar at 120 and a bar at 125
C19_Witness ==
  /\ srv.scoreData = TempoScore(<<120, 140>>, 5, 4)
  /\ srv.isPlaying
  /\ played = <<1, 2, 3>>
  /\ srv.currentBarInSection = 2
  /\ getCurrentTempo(srv) = 130
  /\ now = Epoch + 1000

\* the score with every tempoTransitionBars cut down to the bar count of the
\* section before
Clamped(scoreData) ==
  [scoreData EXCEPT !.sections =
     [i \in DOMAIN scoreData.sections |->
        IF i = 1 THEN scoreData.sections[i]
        ELSE [scoreData.sections[i] EXCEPT !.tempoTransitionBars =
                Min(@, Len(scoreData.sections[i - 1].bars))]]]

\* C20: the tempo of every bar is the tempo computed with tempoTransitionBars
\* cut down to the bar count of the section before.
C20_TransitionBarsClamped ==
  InBar =>
    getCurrentTempo(srv)
      = getCurrentTempo([srv EXCEPT !.scoreData = Clamped(srv.scoreData)])

(************************* playback with a fermata *************************)
FermataTempos == {120, 240}

TempoPercentages == {50, 100, 150}

\* a fermata bar and a plain bar of two beats each
FermataScore(tempo, tempoPercentage, durationType, duration) ==
  [Score("fermata", 0,
     <<Section(tempo, 2, 0,
        <<[PlainBar EXCEPT !.isFermata = TRUE,
                           !.fermataDuration = duration,
                           !.fermataDurationType = durationType],
          PlainBar>>)>>)
     EXCEPT !.tempoPercentage = tempoPercentage]

FermataScores ==
  { FermataScore(tempo, tempoPercentage, durationType, duration) :
      tempo \in FermataTempos, tempoPercentage \in TempoPercentages,
      durationType \in {"beats", "seconds"}, duration \in 1..MaxFermata }

PlayFermata == Play(TRUE) /\ UNCHANGED issued

TickFermata == \E dt \in TickSteps : TickAfter(dt, MaxFermataTime, TRUE)

InitFermata == Start(FermataScores, {FALSE}, {FALSE})

NextFermata == PlayFermata \/ TickFermata

SpecFermata == InitFermata /\ [][NextFermata]_vars

\* the transport plays a fermata bar
InFermata == InBar /\ CurrentBar.isFermata

\* the time since the bar began, at the tick of this step, has reached the
\* duration of the fermata: d * 1000 ms in seconds,
\* d * 60000 / (tempo * tempoPercentage / 100) ms in beats
FermataElapsed ==
  LET elapsed == now' - srv.barStartTime[1]
      d == CurrentBar.fermataDuration
  IN IF CurrentBar.fermataDurationType = "seconds"
     THEN elapsed >= d * 1000
     ELSE elapsed * getCurrentTempo(srv) * srv.scoreData.tempoPercentage
            >= d * 6000000

\* C21: a fermata bar in seconds lasts fermataDuration * 1000 ms whatever the
\* tempo and the percentage, one in beats lasts
\* fermataDuration * 60000 / (tempo * tempoPercentage / 100) ms, 2000 ms for 4
\* beats at 120 and 100%: a tick before that leaves the bar alone, the first
\* tick from then on leaves the bar, and the beat index is 0 all along.
C21_FermataDuration ==
  [][(Ticking /\ InFermata) =>
       /\ srv.currentBeat = 0
       /\ IF FermataElapsed
          THEN srv'.barStartTime = Some(now')
               /\ getAbsoluteBarNumber(srv') = getAbsoluteBarNumber(srv) + 1
          ELSE BarKept /\ srv'.currentBeat = 0
       /\ (/\ CurrentBar.fermataDurationType = "beats"
           /\ CurrentBar.fermataDuration = 4
           /\ getCurrentTempo(srv) = 120
           /\ srv.scoreData.tempoPercentage = 100) =>
            FermataElapsed = (now' - srv.barStartTime[1] >= 2000)]_vars

\* the fermata of 4 beats at 120 and 100% was left at 2000 ms, for bar 2
C21_Witness ==
  /\ srv.scoreData = FermataScore(120, 100, "beats", 4)
  /\ srv.isPlaying
  /\ played = <<1, 2>>
  /\ srv.barStartTime = Some(Epoch + 2000)
  /\ now = Epoch + 2000

(********************** playback with sync adjustments *********************)
\* the adjustments of the sync buttons, in milliseconds
SyncMs == {0 - 100, 50, 250}

PlaySync == Play(TRUE) /\ UNCHANGED issued

TickSync == \E dt \in CmdSteps : TickAfter(dt, MaxSyncTime, TRUE)

AdjustSync ==
  /\ issued < MaxSyncs
  /\ Command
  /\ \E ms \in SyncMs : srv' = adjustSyncOffset(Begin(srv), ms)
  /\ UNCHANGED <<now, played, triggered>>

ResetSync ==
  /\ issued < MaxSyncs
  /\ Command
  /\ srv' = resetSyncOffset(Begin(srv))
  /\ UNCHANGED <<now, played, triggered>>

InitSync == Start({PlainScore(<<2, 1>>, 0)}, {FALSE}, {FALSE})

NextSync == PlaySync \/ TickSync \/ AdjustSync \/ ResetSync

SpecSync == InitSync /\ [][NextSync]_vars

\* the server after adjustSyncOffset(ms) and then resetSyncOffset()
AdjustedThenReset(ms) ==
  resetSyncOffset(Begin(adjustSyncOffset(Begin(srv), ms)))

\* C22 as claimed: while playing, adjustSyncOffset(ms) and then
\* resetSyncOffset() leave the bar start and the sync offset as they were
\* before the adjustment, whatever ms and the offset accumulated before.
C22_AdjustThenResetRestores ==
  srv.isPlaying =>
    \A ms \in SyncMs :
      /\ AdjustedThenReset(ms).barStartTime = srv.barStartTime
      /\ AdjustedThenReset(ms).syncOffset = srv.syncOffset

\* C22 amended: while playing, adjustSyncOffset(ms) and then
\* resetSyncOffset() leave the sync offset 0 and the bar start later by the
\* offset accumulated before the adjustment, whatever ms: both are as before
\* the adjustment when that offset was 0.
C22_AdjustThenResetRemovesOffset ==
  srv.isPlaying =>
    \A ms \in SyncMs :
      /\ AdjustedThenReset(ms).syncOffset = 0
      /\ AdjustedThenReset(ms).barStartTime
           = Some(srv.barStartTime[1] + srv.syncOffset)
      /\ srv.syncOffset = 0 =>
           /\ AdjustedThenReset(ms).barStartTime = srv.barStartTime
           /\ AdjustedThenReset(ms).syncOffset = srv.syncOffset

\* bar 1 began at the start, a tick went by and two sync commands were
\* issued, an adjustment and a reset among them: the offset is 0 and the bar
\* start is where it was
C22_Witness ==
  /\ srv.isPlaying
  /\ issued = 2
  /\ played = <<1>>
  /\ now = Epoch + 250
  /\ srv.syncOffset = 0
  /\ srv.barStartTime = Some(Epoch)
  /\ srv.currentBeat = 0

(********************** playback of a score without bars *******************)
\* a score without sections, and scores whose sections have no bars, the
\* latter without and with a countoff
EmptyScores ==
  {Score("empty", 0, <<>>)}
    \cup { Score("empty", c, [i \in 1..n |-> Section(120, 2, 0, <<>>)]) :
             c \in 0..1, n \in 1..2 }

PlayStart == Play(TRUE) /\ UNCHANGED issued

TickStart == \E dt \in TickSteps : TickAfter(dt, MaxStartTime, TRUE)

InitStart == Start(EmptyScores \cup PlainScores, {FALSE}, BOOLEAN)

NextStart == PlayStart \/ TickStart

SpecStart == InitStart /\ [][NextStart]_vars

\* C23: play() on a score that has no section or no bar in any section does
\* not enter Playing: isPlaying stays false, no timer is started and no
\* playback-started event is emitted.
C23_PlayRefusesScoreWithoutBars ==
  [][(~srv.isPlaying /\ Len(srv.flatBars) = 0 /\ now' = now) =>
       /\ ~srv'.isPlaying
       /\ ~srv'.updateInterval
       /\ Count(srv'.ioEmit, "playback-started") = 0]_vars

(************************ playback of repeat sections **********************)
\* start repeat on 1, end repeat on 2, then bar 3
TwiceScore ==
  Score("twice", 0,
    <<Section(240, 1, 0,
       <<[PlainBar EXCEPT !.startRepeat = TRUE],
         [PlainBar EXCEPT !.endRepeat = TRUE],
         PlainBar>>)>>)

\* README "Multiple Ending Numbers": start repeat on 1, end repeat with
\* endings 1 and 2 on 3, ending 3 on 4
MultiEndingScore ==
  Score("multiEnding", 0,
    <<Section(240, 1, 0,
       <<[PlainBar EXCEPT !.startRepeat = TRUE],
         PlainBar,
         [PlainBar EXCEPT !.endRepeat = TRUE, !.volta = {1, 2}],
         [PlainBar EXCEPT !.volta = {3}]>>)>>)

\* separate endings: start repeat on 1, ending 1 with end repeat on 2,
\* ending 2 with end repeat on 3, ending 3 on 4, then bar 5
SeparateEndingsScore ==
  Score("separateEndings", 0,
    <<Section(240, 1, 0,
       <<[PlainBar EXCEPT !.startRepeat = TRUE],
         [PlainBar EXCEPT !.endRepeat = TRUE, !.volta = {1}],
         [PlainBar EXCEPT !.endRepeat = TRUE, !.volta = {2}],
         [PlainBar EXCEPT !.volta = {3}],
         PlainBar>>)>>)

RepeatScores == {TwiceScore, MultiEndingScore, SeparateEndingsScore}

PlayRepeat == Play(TRUE) /\ UNCHANGED issued

TickRepeat == \E dt \in TickSteps : TickAfter(dt, MaxRepeatTime, TRUE)

InitRepeat == Start(RepeatScores, BOOLEAN, BOOLEAN)

NextRepeat == PlayRepeat \/ TickRepeat

SpecRepeat == InitRepeat /\ [][NextRepeat]_vars

\* a repeat section without voltas is played twice and playback goes on
TwicePlayed ==
  srv.scoreData.name = "twice" => PlaysExactly(<<1, 2, 1, 2, 3>>)

\* end repeat on a bar of endings 1 and 2, followed by a bar of ending 3
MultiEndingPlayed ==
  srv.scoreData.name = "multiEnding" =>
    PlaysExactly(<<1, 2, 3, 1, 2, 3, 1, 2, 4>>)

\* endings 1, 2 and 3 one after the other, the first two with an end repeat
SeparateEndingsPlayed ==
  srv.scoreData.name = "separateEndings" =>
    PlaysExactly(<<1, 2, 1, 3, 1, 4, 5>>)

\* C24: a repeat section is played max(2, highest volta number) times and
\* playback goes on past it: twice without voltas; 1 2 3 1 2 3 1 2 4 with
\* the end repeat on a bar of endings 1 and 2 followed by a bar of ending 3;
\* each ending once, in the order 1, 2, 3, with separate endings.
C24_RepeatPlayedMaxVoltaTimes ==
  TwicePlayed /\ MultiEndingPlayed /\ SeparateEndingsPlayed

\* the start repeat bar that matches the current bar
StartRepeatBar == findMatchingStartRepeat(srv, getAbsoluteBarNumber(srv) - 1)

\* the tick of this step completes a bar with an end repeat and jumps back to
\* the start repeat bar, the repeat being on the stack afterwards
TakenEndRepeat ==
  /\ CompletingTick /\ InBar
  /\ CurrentBar.endRepeat
  /\ srv'.songEndCalls = 0
  /\ LandsOn(StartRepeatBar)
  /\ FindRepeat(srv', StartRepeatBar) # 0

\* C25: every end repeat that is taken raises currentPassNumber by exactly 1,
\* and currentPassNumber is at least 1 in every state.
C25_TakenEndRepeatRaisesPass ==
  /\ [][TakenEndRepeat =>
          srv'.currentPassNumber = srv.currentPassNumber + 1]_vars
  /\ [](srv.currentPassNumber >= 1)

(******************* playback with every navigation action *****************)
\* one-beat bars at 240 after a countoff of one bar: start repeat and segno
\* on 1; D.S., redirect to 1 and end repeat on 2; start repeat and to coda on
\* 3; coda and end repeat on 4; D.C. and fine on 5; the song loop over 2..4
OrderScore ==
  [Score("order", 1,
     <<Section(240, 1, 0,
         <<[PlainBar EXCEPT !.startRepeat = TRUE, !.segno = TRUE],
           [PlainBar EXCEPT !.dalSegno = TRUE, !.redirect = 1,
                            !.redirectCount = 1, !.endRepeat = TRUE],
           [PlainBar EXCEPT !.startRepeat = TRUE, !.toCoda = TRUE],
           [PlainBar EXCEPT !.coda = TRUE, !.endRepeat = TRUE],
           [PlainBar EXCEPT !.daCapo = TRUE, !.fine = TRUE]>>)>>)
     EXCEPT !.loop = [enabled |-> TRUE, start |-> 2, end |-> 4]]

PlayOrder == Play(TRUE) /\ UNCHANGED issued

TickOrder == \E dt \in CmdSteps : TickAfter(dt, MaxOrderTime, TRUE)

SeekOrder == issued < MaxOrders /\ Seek(JumpModes)

LoopBarOrder == issued < MaxOrders /\ SetLoopCurrentBar

InitOrder == Start({OrderScore}, {FALSE}, {FALSE})

NextOrder == PlayOrder \/ TickOrder \/ SeekOrder \/ LoopBarOrder

SpecOrder == InitOrder /\ [][NextOrder]_vars

\* the actions that apply to the bar that is played
FineApplies == CurrentBar.fine /\ srv.shouldWatchForToCodaOrFine

ToCodaApplies ==
  CurrentBar.toCoda /\ srv.shouldWatchForToCodaOrFine /\ findCodaBar(srv) # 0

DalSegnoApplies ==
  CurrentBar.dalSegno /\ ~srv.hasJumpedViaDSorDC /\ findSegnoBar(srv) # 0

DaCapoApplies == CurrentBar.daCapo /\ ~srv.hasJumpedViaDSorDC

RedirectKey == <<getAbsoluteBarNumber(srv), CurrentBar.redirect>>

RedirectApplies ==
  /\ CurrentBar.redirect # 0
  /\ RedirectCount(srv, RedirectKey) < CurrentBar.redirectCount

\* the end repeat is honoured and the section has passes left
EndRepeatApplies ==
  /\ CurrentBar.endRepeat
  /\ CurrentBar.volta = {} \/ srv.currentPassNumber \in CurrentBar.volta
  /\ LET existing == FindRepeat(srv, StartRepeatBar)
         maxVolta ==
           getMaxVoltaInRepeatSection(srv, StartRepeatBar - 1,
                                      getAbsoluteBarNumber(srv) - 1)
     IN existing # 0 =>
          srv.repeatStack[existing].timesPlayed + 1 < Max(2, maxVolta)

SongLoopApplies ==
  /\ srv.loopEnabled /\ srv.loopEnd # 0
  /\ getAbsoluteBarNumber(srv) >= srv.loopEnd

\* what the step leaves alone when the action is not a D.S./D.C. jump, not a
\* redirect, not an end repeat
FlagsKept ==
  /\ srv'.hasJumpedViaDSorDC = srv.hasJumpedViaDSorDC
  /\ srv'.shouldWatchForToCodaOrFine = srv.shouldWatchForToCodaOrFine

RedirectsKept ==
  \A key \in DOMAIN srv.redirectTracking :
    RedirectCount(srv', key) = RedirectCount(srv, key)

RepeatsKept ==
  /\ srv'.repeatStack = srv.repeatStack
  /\ srv'.currentPassNumber = srv.currentPassNumber

\* C26: a bar completion executes one repositioning action, the first that
\* applies in the order loop-current-bar, pending afterBar jump, countoff
\* tick, Fine, To Coda, Dal Segno, Da Capo, redirect, end repeat, song loop,
\* plain advance; the actions after it leave no trace.
C26_FirstApplicableActionOnly ==
  [][(CompletingTick /\ getCurrentBarInfo(srv) # NULL) =>
       IF LoopingBar
       THEN /\ LandsOn(srv.loopCurrentBarNumber)
            /\ srv'.pendingJump = srv.pendingJump
            /\ ScoreActionsSkipped /\ RedirectsKept
       ELSE IF Pending("afterBar")
       THEN /\ LandsOn(srv.pendingJump[1].barNumber)
            /\ srv'.pendingJump = NULL
            /\ ScoreActionsSkipped /\ RedirectsKept
       ELSE IF srv.inCountoff
       THEN /\ srv'.countoffBarsRemaining = srv.countoffBarsRemaining - 1
            /\ srv'.isPlaying /\ srv'.barStartTime = Some(now')
            /\ FlagsKept /\ RedirectsKept /\ RepeatsKept
       ELSE IF FineApplies
       THEN ~srv'.isPlaying /\ srv'.barStartTime = NULL
       ELSE IF ToCodaApplies
       THEN /\ LandsOn(findCodaBar(srv))
            /\ ~srv'.shouldWatchForToCodaOrFine
            /\ srv'.hasJumpedViaDSorDC = srv.hasJumpedViaDSorDC
            /\ RedirectsKept /\ RepeatsKept
       ELSE IF DalSegnoApplies
       THEN /\ LandsOn(findSegnoBar(srv))
            /\ srv'.hasJumpedViaDSorDC /\ srv'.shouldWatchForToCodaOrFine
            /\ RedirectsKept /\ RepeatsKept
       ELSE IF DaCapoApplies
       THEN /\ LandsOn(1)
            /\ srv'.hasJumpedViaDSorDC /\ srv'.shouldWatchForToCodaOrFine
            /\ RedirectsKept /\ RepeatsKept
       ELSE IF RedirectApplies
       THEN /\ LandsOn(CurrentBar.redirect)
            /\ RedirectCount(srv', RedirectKey)
                 = RedirectCount(srv, RedirectKey) + 1
            /\ FlagsKept /\ RepeatsKept
       ELSE IF EndRepeatApplies
       THEN /\ LandsOn(StartRepeatBar)
            /\ FindRepeat(srv', StartRepeatBar) # 0
            /\ srv'.currentPassNumber > 1
            /\ FlagsKept
       ELSE IF SongLoopApplies
       THEN /\ LandsOn(IF srv.loopStart # 0 THEN srv.loopStart ELSE 1)
            /\ FlagsKept
       ELSE IF AtLastBar
       THEN srv'.songEndCalls = 1 /\ ~srv'.isPlaying
       ELSE /\ srv'.isPlaying /\ srv'.barStartTime = Some(now')
            /\ getAbsoluteBarNumber(srv') > getAbsoluteBarNumber(srv)
            /\ FlagsKept]_vars

\* bar 2 carries a D.S., a redirect that is not used up and an end repeat:
\* its first completion took the D.S. to bar 1, its second the redirect to
\* bar 1, and the repeat stack is still empty
C26_WitnessRedirect ==
  /\ srv.isPlaying
  /\ issued = 0
  /\ played = <<1, 2, 1, 2, 1>>
  /\ srv.hasJumpedViaDSorDC
  /\ RedirectCount(srv, <<2, 1>>) = 1
  /\ srv.repeatStack = <<>>
  /\ srv.currentPassNumber = 1
  /\ srv.barStartTime = Some(now)

\* bar 4 is at loopEnd and carries an end repeat that was taken: its
\* completion went to the start repeat bar 3, not to loopStart 2; its next
\* completion, the repeat being done, took the song loop to bar 2
C26_Witness ==
  /\ srv.isPlaying
  /\ issued = 1
  /\ played = <<4, 3, 4, 2>>
  /\ srv.repeatStack = <<>> /\ srv.currentPassNumber = 1
  /\ srv.loopEnabled /\ srv.loopEnd = 4 /\ srv.loopStart = 2
  /\ srv.pendingJump = NULL /\ ~srv.loopCurrentBarEnabled
  /\ srv.barStartTime = Some(now)
  /\ now = Epoch + 1000

\* the server with the D.S. and D.C. markers taken off every bar
WithoutDSDC(s) ==
  [s EXCEPT !.flatBars =
     [i \in DOMAIN @ |-> [@[i] EXCEPT !.dalSegno = FALSE, !.daCapo = FALSE]]]

\* the tick of this step runs in a bar with a D.S. or D.C. marker and the
\* marker makes a difference to what it does
JumpsViaDSorDC ==
  /\ Ticking /\ InBar
  /\ CurrentBar.dalSegno \/ CurrentBar.daCapo
  /\ srv' # [tick(Begin(WithoutDSDC(srv)), now')
               EXCEPT !.flatBars = srv.flatBars]

\* C27: a D.S. or D.C. marker takes effect only while hasJumpedViaDSorDC is
\* false and sets it, and the flag goes back to false only when the
\* transport stops: between a play() from Stopped and the next stop at most
\* one D.S./D.C. jump is executed.
C27_OneJumpViaDSorDC ==
  [][/\ JumpsViaDSorDC =>
          ~srv.hasJumpedViaDSorDC /\ srv'.hasJumpedViaDSorDC
     /\ (srv.hasJumpedViaDSorDC /\ ~srv'.hasJumpedViaDSorDC) =>
          ~srv'.isPlaying /\ srv'.barStartTime = NULL]_vars

\* the D.S. of bar 2 was taken, To Coda of bar 3 was used up, and the D.C.
\* bar 5 has just been completed without a jump: the song loop went to bar 2
C27_Witness ==
  /\ srv.isPlaying
  /\ srv.hasJumpedViaDSorDC /\ ~srv.shouldWatchForToCodaOrFine
  /\ srv.lastTriggeredBar = 5
  /\ getAbsoluteBarNumber(srv) = 2
  /\ srv.pendingJump = NULL /\ ~srv.loopCurrentBarEnabled
  /\ srv.barStartTime = Some(now)

(************************* playback of volta bars **************************)
\* a repeat whose first ending is the last bar of the song: start repeat on
\* 1, ending 1 with the end repeat on 2
LastEndingScore ==
  Score("lastEnding", 0,
    <<Section(240, 1, 0,
       <<[PlainBar EXCEPT !.startRepeat = TRUE],
         [PlainBar EXCEPT !.endRepeat = TRUE, !.volta = {1}]>>)>>)

VoltaScores == {VoltaScore, MultiEndingScore, LastEndingScore}

PlayVolta == Play(TRUE) /\ UNCHANGED issued

TickVolta == \E dt \in TickSteps : TickAfter(dt, MaxVoltaTime, TRUE)

InitVolta == Start(VoltaScores, BOOLEAN, BOOLEAN)

NextVolta == PlayVolta \/ TickVolta

SpecVolta == InitVolta /\ [][NextVolta]_vars

\* no action before the plain advance applies to the bar that is played
PlainAdvanceResolves ==
  /\ ~LoopingBar /\ ~Pending("afterBar") /\ ~srv.inCountoff
  /\ ~FineApplies /\ ~ToCodaApplies /\ ~DalSegnoApplies /\ ~DaCapoApplies
  /\ ~RedirectApplies /\ ~EndRepeatApplies /\ ~SongLoopApplies

\* C28: after a bar completion that is resolved by the plain advance, the
\* bar that is played has no volta list that excludes currentPassNumber.
C28_PlainAdvanceLandsOnPlayedVolta ==
  [][(CompletingTick /\ InBar /\ PlainAdvanceResolves
        /\ srv'.isPlaying /\ getCurrentBarInfo(srv') # NULL) =>
       \/ getCurrentBarInfo(srv')[1].volta = {}
       \/ srv'.currentPassNumber \in getCurrentBarInfo(srv')[1].volta]_vars

(**************************** playback position ****************************)
\* C29: in every state outside the countoff, the pair (currentSectionIndex,
\* currentBarInSection) addresses an existing bar: the section index is one
\* of the score's sections and the bar index is one of that section's bars.
C29_PositionAddressesBar ==
  ~srv.inCountoff =>
    /\ srv.currentSectionIndex \in 0..(Len(srv.scoreData.sections) - 1)
    /\ srv.currentBarInSection >= 0
    /\ srv.currentBarInSection <
         Len(srv.scoreData.sections[srv.currentSectionIndex + 1].bars)

(************************ OSC tracking when stopped ************************)
\* C30: in every state where the transport is stopped (after construction,
\* after playback stopped by itself at the end of the song, at Fine or on an
\* invalid position), lastTriggeredBar is -1, so that the first bar played
\* after the next play() sends its OSC message again.
C30_StoppedForgetsTriggeredBar ==
  Stopped => srv.lastTriggeredBar = 0 - 1

(******************** playback started after commands *********************)
\* play, ticks, the stop command and seeks of every mode; the transport is
\* never paused, so one that is not playing was constructed or stopped
PlayIdle == Play(TRUE) /\ UNCHANGED issued
TickIdle == \E dt \in CmdSteps : TickAfter(dt, MaxIdleTime, TRUE)
StopIdle == issued < MaxIdles /\ StopPlayback
SeekIdle == issued < MaxIdles /\ Seek(JumpModes)

InitIdle ==
  Start({ PlainScore(<<2, 1>>, c) : c \in 1..MaxCountoff }, {FALSE}, {TRUE})
NextIdle == PlayIdle \/ TickIdle \/ StopIdle \/ SeekIdle
SpecIdle == InitIdle /\ [][NextIdle]_vars

\* C31: when play() is called on a transport that is stopped, on a score
\* with a countoff, playback starts in the countoff and MIDI Start, not
\* MIDI Continue, is sent, whatever was issued while it was stopped.
C31_PlayFromStoppedStartsCountoff ==
  [][(~srv.isPlaying /\ srv'.isPlaying /\ srv.scoreData.countoff > 0) =>
       /\ srv'.inCountoff
       /\ srv'.countoffBarsRemaining = srv.scoreData.countoff
       /\ Count(srv'.midiSent, MidiStart) = 1
       /\ Count(srv'.midiSent, MidiContinue) = 0]_vars

(***************************** interval timers *****************************)
\* C32: in every state the tick timer exists exactly when isPlaying is
\* true, there is at most one tick timer and at most one MIDI pulse timer
\* alive, each held by its field, and a MIDI pulse timer exists only while
\* isPlaying is true: pause(), the stop command and a stop from inside a
\* tick leave no timer behind.
C32_TimersFollowPlaying ==
  /\ srv.updateInterval <=> srv.isPlaying
  /\ srv.tickTimers = (IF srv.updateInterval THEN 1 ELSE 0)
  /\ srv.pulseTimers = (IF srv.midiClockInterval # NULL THEN 1 ELSE 0)
  /\ srv.midiClockInterval # NULL => srv.isPlaying

\* pause() has just returned on a transport whose MIDI clock was running
C32_Witness ==
  /\ Paused
  /\ srv.midiOutput
  /\ Count(srv.ioEmit, "playback-paused") = 1
  /\ Count(srv.midiSent, MidiStop) = 1
  /\ srv.tickTimers = 0
  /\ srv.pulseTimers = 0

(*********************** playback with live edits *************************)
\* the scores the editor sends: one to three sections without empty ones,
\* one with a countoff and one with a song loop
UpdateScores ==
  { PlainScore(l, 0) : l \in {<<1>>, <<2>>, <<1, 2>>, <<2, 1, 1>>} }
    \cup { PlainScore(<<2, 1>>, 1),
           [PlainScore(<<2, 1>>, 0)
              EXCEPT !.loop = [enabled |-> TRUE, start |-> 1, end |-> 2]] }

PlayUpdate == Play(FALSE) /\ UNCHANGED issued
TickUpdate == \E dt \in TickSteps : TickAfter(dt, MaxUpdateTime, FALSE)
UpdateScore ==
  /\ issued < MaxUpdates
  /\ issued' = issued + 1
  /\ \E newScoreData \in UpdateScores :
       srv' = updateScore(Begin(srv), newScoreData)
  /\ UNCHANGED <<now, played, triggered>>

SeekUpdate == issued < MaxUpdates /\ Seek({"afterBar"})

InitUpdate == Start(UpdateScores, {FALSE}, {FALSE})
NextUpdate == PlayUpdate \/ TickUpdate \/ UpdateScore \/ SeekUpdate
SpecUpdate == InitUpdate /\ [][NextUpdate]_vars

\* (currentSectionIndex, currentBarInSection) is a bar of the score
AddressesBar(s) ==
  /\ s.currentSectionIndex \in 0..(Len(s.scoreData.sections) - 1)
  /\ s.currentBarInSection >= 0
  /\ s.currentBarInSection <
       Len(s.scoreData.sections[s.currentSectionIndex + 1].bars)

\* the step is a run of the timer callback
TimerRuns == srv.isPlaying /\ now' # now

\* C33: when a live updateScore has left the position addressing no bar of
\* the new score, the next tick stops playback, and no tick ends by an
\* exception.
C33_TickStopsOnLostPosition ==
  [][TimerRuns =>
       /\ ~srv'.threw
       /\ (~srv.inCountoff /\ ~AddressesBar(srv)) =>
            (Stopped' /\ Count(srv'.ioEmit, "playback-stopped") = 1)]_vars

\* the step is an updateScore
ScoreReplaced == Count(srv'.ioEmit, "score-data") = 1

\* the fields updateScore assigns, and the outputs of an operation
ScoreFields ==
  {"scoreData", "flatBars", "loopEnabled", "loopStart", "loopEnd",
   "midiSent", "ioEmit", "oscSent", "songEndCalls", "threw"}

PulseScores ==
  { [PlainScore(l, c) EXCEPT !.tempoPercentage = p] :
      l \in {<<1>>, <<1, 1>>}, c \in 0..1, p \in TempoPercentages }

PlayPulse == Play(TRUE) /\ UNCHANGED issued
TickPulse == \E dt \in TickSteps : TickAfter(dt, MaxPulseTime, TRUE)

InitPulse == Start(PulseScores, {FALSE}, {TRUE})
NextPulse == PlayPulse \/ TickPulse
SpecPulse == InitPulse /\ [][NextPulse]_vars

\* two durations in milliseconds are equal; the numerators are whole
\* numbers of seconds here, and the products are kept small
SameDuration(x, y) ==
  (x.num \div 1000) * y.den = (y.num \div 1000) * x.den

\* C35: while the pulse timer runs at the tempo the ticks last found, 24
\* pulse intervals for each beat of the bar span exactly the duration of the
\* current bar, fermatas aside, at every tempo percentage.
C35_PulsesSpanBar ==
  (/\ srv.isPlaying
   /\ srv.midiClockInterval # NULL
   /\ srv.lastTempo = getCurrentTempo(srv)
   /\ getCurrentBarInfo(srv) # NULL
   /\ ~getCurrentBarInfo(srv)[1].isFermata) =>
    LET barInfo == getCurrentBarInfo(srv)[1]
        pulse == msPerPulse(srv.midiClockInterval[1])
        barDuration ==
          getBarDuration(srv, getCurrentTempo(srv), barInfo.timeSignature,
                         barInfo.isFermata, barInfo.fermataDuration,
                         barInfo.fermataDurationType)
    IN SameDuration([num |-> PulsesPerQuarterNote
                               * barInfo.timeSignature.beats * pulse.num,
                     den |-> pulse.den],
                    barDuration)

(*********************** playback until it ends ***************************)
\* The timer callback reads the clock only in `now - this.barStartTime`, and
\* sets barStartTime to the clock.  Here the state keeps barStartTime
\* relative to the present: after a callback that ran dt later, the clock is
\* taken back by dt and barStartTime with it.  A playback that never ends is
\* then a cycle of states.
Rebased(s, dt) ==
  IF s.barStartTime = NULL THEN s
  ELSE [s EXCEPT !.barStartTime = Some(s.barStartTime[1] - dt)]

LiveScores ==
  ScenarioScores \cup RepeatScores \cup {LastEndingScore}
    \cup { PlainScore(<<2, 1>>, c) : c \in 0..1 }

PlayLive == Play(FALSE) /\ UNCHANGED issued
TickLive ==
  /\ srv.updateInterval
  /\ \E dt \in TickSteps :
       \E s1 \in {tick(Begin(srv), now + dt)} : srv' = Rebased(s1, dt)
  /\ UNCHANGED <<now, played, issued, triggered>>

InitLive == Start(LiveScores, {FALSE}, {FALSE})
NextLive == PlayLive \/ TickLive
\* setInterval keeps calling the callback until the timer is cleared
SpecLive == InitLive /\ [][NextLive]_vars /\ WF_vars(TickLive)

\* C36: without repeatSong, song loop, loop-current-bar and commands, a
\* playback that was started reaches Stopped, whatever redirects, repeats,
\* volta lists and D.S./D.C./To Coda/Fine markers the score has.
C36_PlaybackEnds == srv.isPlaying ~> Stopped

(**************************** pause and resume *****************************)
\* lengths of a pause in milliseconds
PauseLengths == {250, 500, 1000}

\* pause() at time t and play() w milliseconds later
ResumedAfter(s, t, w) == play(Begin(pause(Begin(s))), t + w)

\* C37: time spent paused does not count toward the current bar: when
\* pause() is called with e ms of the bar elapsed and play() resumes after a
\* pause of any length, a tick finds the bar over only when e plus the time
\* played since the resume is at least the duration of the bar.
C37_PausedTimeNotCounted ==
  (/\ srv.isPlaying
   /\ getCurrentBarInfo(srv) # NULL
   /\ ~BarIsOver(srv, getCurrentBarInfo(srv)[1], now)) =>
    \A w \in PauseLengths, d \in TickSteps :
      LET resumed == ResumedAfter(srv, now, w)
          barInfo == getCurrentBarInfo(resumed)[1]
          barDuration ==
            getBarDuration(srv, getCurrentTempo(srv), barInfo.timeSignature,
                           barInfo.isFermata, barInfo.fermataDuration,
                           barInfo.fermataDurationType)
          e == now - srv.barStartTime[1]
      IN BarIsOver(resumed, barInfo, now + w + d) =>
           (e + d) * barDuration.den >= barDuration.num

(******************* snapshots under sync adjustments **********************)
PlaySnap == Play(TRUE) /\ UNCHANGED issued
TickSnap == \E dt \in CmdSteps : TickAfter(dt, MaxSnapTime, TRUE)

AdjustSnap ==
  /\ issued < MaxSnaps
  /\ Command
  /\ \E ms \in SyncMs : srv' = adjustSyncOffset(Begin(srv), ms)
  /\ UNCHANGED <<now, played, triggered>>

BeatSnap ==
  /\ issued < MaxSnaps
  /\ Command
  /\ \E direction \in {0 - 1, 1} :
       srv' = adjustSyncByBeat(Begin(srv), direction)
  /\ UNCHANGED <<now, played, triggered>>

ResetSnap ==
  /\ issued < MaxSnaps
  /\ Command
  /\ srv' = resetSyncOffset(Begin(srv))
  /\ UNCHANGED <<now, played, triggered>>

InitSnap == Start({PlainScore(<<2, 1>>, 0)}, {FALSE}, {FALSE})
NextSnap == PlaySnap \/ TickSnap \/ AdjustSnap \/ BeatSnap \/ ResetSnap
SpecSnap == InitSnap /\ [][NextSnap]_vars

\* C38: every snapshot that a tick emits while playing has a beat from 0 to
\* the beats of the bar less one and a progress from 0 to 1, whatever sync
\* adjustments came between the ticks.
C38_SnapshotInRange ==
  (Count(srv.ioEmit, "state-update") > 0
     /\ getCurrentState(srv, now).isPlaying) =>
    LET state == getCurrentState(srv, now)
    IN /\ state.beat >= 0
       /\ state.beat < state.beats
       /\ state.progress.num >= 0
       /\ state.progress.num <= state.progress.den

(************************** restart of the song ****************************)
\* the step is a tick that ends the song and, with repeatSong, starts it again
Restarting ==
  /\ srv.isPlaying
  /\ srv.repeatSong
  /\ srv'.songEndCalls = 1
  /\ srv'.isPlaying

\* C39: with repeatSong, at each restart at bar 1 the navigation state is
\* what it was at the first start: no D.S./D.C. jump taken, no watching for
\* To Coda or Fine, an empty repeat stack, pass number 1 and every redirect
\* counter at 0; so every pass follows the bar sequence of the first.
C39_RestartResetsNavigation ==
  [][Restarting =>
       /\ getAbsoluteBarNumber(srv') = 1
       /\ ~srv'.hasJumpedViaDSorDC
       /\ ~srv'.shouldWatchForToCodaOrFine
       /\ srv'.repeatStack = <<>>
       /\ srv'.currentPassNumber = 1
       /\ \A key \in DOMAIN srv'.redirectTracking :
            srv'.redirectTracking[key] = 0]_vars

(**************************** song-end callback ****************************)
\* the step is a tick that stops playback from a bar of the score: at Fine
\* or after the last bar
PieceOver ==
  /\ srv.isPlaying
  /\ now' # now
  /\ getCurrentBarInfo(srv) # NULL
  /\ ~srv'.isPlaying

\* C40: a tick that stops playback because the piece is over, after the
\* last bar without repeatSong or at a Fine bar after a D.S./D.C. jump, calls
\* the song-end callback exactly once; the stop command and pause() never
\* call it.
C40_SongEndCalledOnce ==
  /\ [][PieceOver => srv'.songEndCalls = 1]_vars
  /\ [][(Pausing \/ Stopping) => srv'.songEndCalls = 0]_vars

(****************************** MIDI retiming ******************************)
\* the timer callback that runs in this step finds a tempo other than the
\* one of the callback before it
Retiming ==
  /\ srv.isPlaying
  /\ getCurrentBarInfo(srv) # NULL
  /\ getCurrentTempo(srv) # srv.lastTempo
  /\ now' # now

\* C11: when the tempo found by a tick differs from the tempo of the tick
\* before, with MIDI output, the pulse timer runs at the new tempo afterwards
\* (unless the same tick stops playback) and no MIDI Start is sent.
C11_RetimingSendsNoStart ==
  [][(Retiming /\ srv.midiEnabled /\ srv.midiOutput) =>
       /\ srv'.isPlaying => srv'.midiClockInterval = Some(getCurrentTempo(srv))
       /\ Count(srv'.midiSent, MidiStart) = 0]_vars

(****************************** pending jumps ******************************)
\* the step is a call of pause(), whatever the state of the transport
PauseCall ==
  /\ issued' = issued + 1
  /\ now' = now
  /\ \/ Pausing
     \/ ~srv.isPlaying /\ srv' = Begin(srv)

====
